---- MODULE Spec2Model ----
(***************************************************************************)
(* NETTF wire protocol engine (protocol.c, server.c, signals.c,           *)
(* adaptive.c): a sender and a receiver joined by one TCP byte stream.    *)
(* Bytes are naturals 0..255, strings and buffers are sequences of bytes, *)
(* 64-bit header fields are 8-tuples of bytes, most significant first.    *)
(***************************************************************************)
EXTENDS Integers, Sequences, FiniteSets, TLC

\* ------------------------------------------------------------------ bytes
SLASH == 47
BSLASH == 92
DOT == 46
NUL == 0

\* bounds of the model: the longest file body and the most entries of a tree
MaxBody == 2
MaxEntries == 2

Min(a, b) == IF a < b THEN a ELSE b

RECURSIVE Reverse(_)
Reverse(s) == IF s = <<>> THEN <<>> ELSE Reverse(Tail(s)) \o <<Head(s)>>

Take(s, n) == SubSeq(s, 1, Min(n, Len(s)))

\* A buffer read as a C string ends at its first NUL byte.
RECURSIVE CStr(_)
CStr(b) == IF b = <<>> \/ Head(b) = NUL THEN <<>> ELSE <<Head(b)>> \o CStr(Tail(b))

\* strstr(s, "..") != NULL
HasDotDot(s) == \E i \in 1..(Len(s) - 1) : s[i] = DOT /\ s[i + 1] = DOT

\* --------------------------------------------------------- endian codec
\* A value is its bytes, most significant first. On a little-endian host
\* htonl swaps the four bytes; on a big-endian host it is the identity.
htonl(le, v) == IF le THEN Reverse(v) ELSE v
\* ntohl that leaves the bytes as they are on every host
ntohl_noswap(le, v) == v
ntohl(le, v) == IF le THEN Reverse(v) ELSE v

\* ((uint64_t)htonl(value & 0xFFFFFFFF) << 32) | htonl(value >> 32)
htonll(le, v) ==
    IF le THEN htonl(le, SubSeq(v, 5, 8)) \o htonl(le, SubSeq(v, 1, 4)) ELSE v
ntohll(le, v) ==
    IF le THEN ntohl(le, SubSeq(v, 5, 8)) \o ntohl(le, SubSeq(v, 1, 4)) ELSE v

\* The bytes of a value as they lie in the host's memory, which is what
\* send_all(s, &header, ...) transmits and recv_all(s, &header, ...) fills.
ToMem(le, v) == IF le THEN Reverse(v) ELSE v
FromMem(le, b) == IF le THEN Reverse(b) ELSE b

\* This build's hosts (x86-64 / arm64): little-endian.
HostLE == TRUE

U32(n) == << (n \div 16777216) % 256, (n \div 65536) % 256, (n \div 256) % 256, n % 256 >>
U64(n) == <<0, 0, 0, 0>> \o U32(n)
\* The number a 64-bit value stands for; the model's headers stay below 2^31.
Num(v) == v[5] * 16777216 + v[6] * 65536 + v[7] * 256 + v[8]

\* the 64-bit field number i (1-based) of a received header buffer
Field(le, buf, i) == ntohll(le, FromMem(le, SubSeq(buf, 8 * i - 7, 8 * i)))
\* a header field as the sender lays it on the wire
WireU64(le, n) == ToMem(le, htonll(le, U64(n)))

MAGIC_SIZE == 4
HEADER_SIZE == 16
DIR_HEADER_SIZE == 24
TARGET_FILE_HEADER_SIZE == 24
TARGET_DIR_HEADER_SIZE == 32

FILE_MAGIC == <<70, 73, 76, 69>>
DIR_MAGIC == <<68, 73, 82, 32>>
TARGET_FILE_MAGIC == <<84, 65, 82, 71>>
TARGET_DIR_MAGIC == <<84, 68, 73, 82>>

\* ------------------------------------------------------------ filesystem
\* A path string resolves to a sequence of components. ROOT stands for "/"
\* and a leading DOTDOT for the parent of the working directory.
ROOT == <<SLASH>>
DOTDOT == <<DOT, DOT>>

RECURSIVE Split(_)
Split(p) ==
    IF p = <<>> THEN << <<>> >>
    ELSE LET r == Split(Tail(p)) IN
         IF Head(p) = SLASH THEN << <<>> >> \o r
         ELSE << <<Head(p)>> \o Head(r) >> \o Tail(r)

RECURSIVE Resolve(_, _)
Resolve(stack, comps) ==
    IF comps = <<>> THEN stack
    ELSE LET c == Head(comps) IN
         Resolve(
           IF c = <<>> \/ c = <<DOT>> THEN stack
           ELSE IF c = DOTDOT THEN
                  IF stack = <<>> \/ stack[Len(stack)] = DOTDOT THEN Append(stack, DOTDOT)
                  ELSE IF stack = <<ROOT>> THEN stack
                  ELSE SubSeq(stack, 1, Len(stack) - 1)
           ELSE Append(stack, c),
           Tail(comps))

Norm(p) == Resolve(IF p /= <<>> /\ p[1] = SLASH THEN <<ROOT>> ELSE <<>>, Split(p))

\* Outside the working directory: under "/" or above ".".
Outside(n) == n /= <<>> /\ n[1] \in {ROOT, DOTDOT}

\* Directories that exist without having been created by the receiver.
Ambient(n) == n = <<>> \/ n = <<ROOT>> \/ (\A i \in 1..Len(n) : n[i] = DOTDOT)
IsDir(n, dirs) == Ambient(n) \/ n \in dirs
IsFile(n, files) == n \in DOMAIN files

\* mkdir(path, 0755) != 0 && errno != EEXIST  -- TRUE when the call counts as failed
MkdirFails(p, dirs, files) ==
    LET n == Norm(p) IN
    \/ p = <<>>
    \/ /\ ~IsDir(n, dirs) /\ ~IsFile(n, files)
       /\ ~IsDir(SubSeq(n, 1, Len(n) - 1), dirs)
\* the directories after a mkdir that did not fail
MkdirDirs(p, dirs, files) ==
    LET n == Norm(p) IN
    IF IsDir(n, dirs) \/ IsFile(n, files) THEN dirs ELSE dirs \cup {n}

\* fopen(path, "wb") returns NULL
FopenFails(p, dirs, files) ==
    LET n == Norm(p) IN
    \/ p = <<>>
    \/ p[Len(p)] = SLASH
    \/ IsDir(n, dirs)
    \/ ~IsDir(SubSeq(n, 1, Len(n) - 1), dirs)

\* The paths create_directory_recursive hands to mkdir, in order: the prefix
\* before every '/' found past the first byte, then the whole path.
MkdirList(path) ==
    LET cuts == {i \in 2..Len(path) : path[i] = SLASH}
        RECURSIVE Go(_)
        Go(i) == IF i > Len(path) THEN <<>>
                 ELSE (IF i \in cuts THEN <<SubSeq(path, 1, i - 1)>> ELSE <<>>) \o Go(i + 1)
    IN Go(2) \o <<path>>

\* create_directory_recursive: [ok, dirs, ops]; ops are the paths given to mkdir.
RECURSIVE MkdirAll(_, _, _, _)
MkdirAll(list, dirs, files, ops) ==
    IF list = <<>> THEN [ok |-> TRUE, dirs |-> dirs, ops |-> ops]
    ELSE IF MkdirFails(Head(list), dirs, files)
         THEN [ok |-> FALSE, dirs |-> dirs, ops |-> Append(ops, Head(list))]
         ELSE MkdirAll(Tail(list), MkdirDirs(Head(list), dirs, files), files,
                       Append(ops, Head(list)))

create_directory_recursive(dirpath, dirs, files) ==
    MkdirAll(MkdirList(CStr(dirpath)), dirs, files, <<>>)


\* ------------------------------------------------------- frames of a peer
\* What an arbitrary peer may put on the stream, as a structure: a magic, the
\* header fields, the strings, the entries and trailing bytes. Length fields
\* carry the true lengths; a stream cut short is the peer closing early.
Body(n) == [i \in 1..n |-> i]

\* the letters the names of this model are written with
Letter == [a |-> 97, b |-> 98, e |-> 101, p |-> 112, r |-> 114, t |-> 116]
cA == Letter.a
cB == Letter.b
cT == Letter.t
cR == Letter.r
cE == Letter.e

NoEntries == <<>>
Entry(size, name) == [size |-> size, name |-> name, body |-> Body(size)]
Sentinel == Entry(0, <<>>)

PeerNames == { <<cA>>, <<>>, <<SLASH, cA>>, <<DOT, DOT, SLASH, cA>>, <<cA, SLASH, cB>>,
               <<cA, DOT, DOT, cB>> }
PeerTargets == { <<>>, <<cT>>, <<SLASH, cT>>, <<DOT, DOT>>, <<cT, SLASH, DOT, DOT, SLASH, DOT, DOT>>,
                 <<cT, SLASH, cB>> }
EntryPool == { Entry(MaxBody, <<cA>>), Entry(0, <<cB, SLASH, cA>>),
               Entry(1, <<DOT, DOT, SLASH, cB>>), Entry(1, <<>>), Sentinel }
PeerEntries == UNION {[1..n -> EntryPool] : n \in 0..MaxEntries}

Frame(kind, magic, size, name, target, total, entries, tail) ==
    [kind |-> kind, magic |-> magic, size |-> size, name |-> name, target |-> target,
     total_files |-> total, entries |-> entries, tail |-> tail]

PeerFrames ==
    {Frame("FILE", FILE_MAGIC, z, nm, <<>>, 0, NoEntries, <<>>) :
        z \in 0..MaxBody, nm \in PeerNames}
    \cup {Frame("TARG", TARGET_FILE_MAGIC, z, nm, t, 0, NoEntries, <<>>) :
        z \in {0, MaxBody}, nm \in {<<cA>>, <<SLASH, cA>>}, t \in PeerTargets}
    \cup {Frame("DIR", DIR_MAGIC, 0, <<cA>>, <<>>, n, e, tl) :
        n \in {0, 1}, e \in PeerEntries, tl \in {<<>>, <<cA>>}}
    \cup {Frame("DIR", DIR_MAGIC, 0, nm, <<>>, 1, <<Entry(1, <<cA>>)>>, <<>>) :
        nm \in {<<>>, <<DOT, DOT>>, <<SLASH, cA>>}}
    \cup {Frame("TDIR", TARGET_DIR_MAGIC, 0, <<cA>>, t, n, e, <<cA>>) :
        t \in {<<>>, <<cT>>}, n \in 0..MaxEntries, e \in PeerEntries}
    \cup {Frame("TDIR", TARGET_DIR_MAGIC, 0, <<cA>>, t, 1, <<Entry(1, <<cA>>)>>, <<>>) :
        t \in {<<SLASH, cT>>, <<DOT, DOT>>, <<cT, SLASH, DOT, DOT, SLASH, DOT, DOT>>}}
    \cup {Frame("JUNK", m, 0, <<>>, <<>>, 0, NoEntries, <<cA>>) :
        m \in {<<0, 0, 0, 0>>, <<70, 73, 76, 70>>, <<69, 76, 73, 70>>}}

RECURSIVE EncodeEntries(_, _)
EncodeEntries(le, es) ==
    IF es = <<>> THEN <<>>
    ELSE LET e == Head(es) IN
         WireU64(le, e.size) \o WireU64(le, Len(e.name)) \o e.name \o e.body
         \o EncodeEntries(le, Tail(es))

\* the bytes of a peer's frame
Encode(le, f) ==
    ToMem(le, htonl(le, f.magic)) \o
    CASE f.kind = "FILE" ->
           WireU64(le, f.size) \o WireU64(le, Len(f.name)) \o f.name \o Body(f.size)
      [] f.kind = "TARG" ->
           WireU64(le, f.size) \o WireU64(le, Len(f.name)) \o WireU64(le, Len(f.target))
           \o f.name \o f.target \o Body(f.size)
      [] f.kind = "DIR" ->
           WireU64(le, f.total_files) \o WireU64(le, 0) \o WireU64(le, Len(f.name))
           \o f.name \o EncodeEntries(le, f.entries) \o EncodeEntries(le, <<Sentinel>>)
           \o f.tail
      [] f.kind = "TDIR" ->
           WireU64(le, f.total_files) \o WireU64(le, 0) \o WireU64(le, Len(f.name))
           \o WireU64(le, Len(f.target)) \o f.name \o f.target
           \o EncodeEntries(le, f.entries) \o f.tail
      [] OTHER -> f.tail

\* ---------------------------------------------------------------- state
VARIABLES
    mode,     \* "peer": an arbitrary peer sends `frame`; "sender": the NETTF sender runs
    frame,    \* the peer's frame (mode "peer")
    wire,     \* the bytes the other end sends on the connection
    closed,   \* the other end has closed the connection
    rpos,     \* how many bytes of the wire the receiver has consumed
    rpc,      \* where the receiver is
    rneed,    \* len of the recv_all (or recv) in progress
    rbuf,     \* bytes the recv_all in progress has stored so far
    rx,       \* the locals of the running receive handler
    ttype,    \* <<v>> once detect_transfer_type has returned v, <<>> before
    handler,  \* the handler receive_file invoked ("none" if none)
    hstart,   \* rpos when that handler was entered
    rret,     \* <<v>> once the handler has returned v, <<>> before
    rdirs,    \* receiver filesystem: directories
    rfiles,   \* receiver filesystem: regular files, path -> content
    fsops,    \* every path the receiver gave to mkdir or fopen, in order
    rlog,     \* the fields the receiver has read: <<what, length>>, in order
    spc,      \* where the sender is ("none" in mode "peer")
    sx,       \* the sender's arguments and locals
    slog,     \* the pieces the sender has written: [what, bytes], in order
    ad,       \* an AdaptiveState, as adaptive_init and its users keep it
    now,      \* what time(NULL) returns
    au,       \* the calls made on ad: how many, the last one, what it returned
    rsig,     \* sigint_count of the receiving process
    ssig,     \* sigint_count of the sending process
    rprompts, \* shutdown prompts the receive handlers have printed
    sprompts, \* shutdown prompts the send functions have printed
    conn,     \* a client has connected to the listening socket
    call,     \* one call of a library function followed on its own: its
              \* arguments, its progress and its result
    srv       \* the server's client sockets: how many accepted sockets are
              \* open, the accepts so far, the close_socket calls since the
              \* last accept, and the clients waiting in the listen queue

rvars == <<rpos, rpc, rneed, rbuf, rx, ttype, handler, hstart, rret, rdirs, rfiles, fsops,
           rlog>>
svars == <<spc, sx, slog>>
avars == <<ad, now, au>>
sigs == <<rsig, ssig>>
evars == <<avars, sigs, rprompts, sprompts, conn, call, srv>>
vars == <<mode, frame, wire, closed, rvars, svars, evars>>

ChunkSizes == {8192, 65536, 262144, 1048576, 2097152}

\* ------------------------------------------------------------ adaptive chunk sizing
MIN_CHUNK_SIZE == 8 * 1024
MAX_CHUNK_SIZE == 2 * 1024 * 1024
INITIAL_CHUNK_SIZE == 64 * 1024
ADJUSTMENT_INTERVAL == 2
SPEED_SAMPLES == 5
MB == 1024 * 1024

\* how many calls on one AdaptiveState are followed, and how far the clock runs
MaxCalls == 6
MaxTime == 4

\* adaptive_init(state, total_bytes) when time(NULL) returns t
adaptive_init(total_bytes, t) ==
    [current_chunk_size |-> INITIAL_CHUNK_SIZE, last_adjustment_time |-> t,
     transfer_start_time |-> t, bytes_transferred |-> 0, total_bytes |-> total_bytes,
     bytes_sent_or_received |-> 0, sample_count |-> 0, sample_index |-> 0,
     speed_samples |-> [i \in 1..SPEED_SAMPLES |-> 0]]

\* the value adaptive_get_chunk_size(state) returns, which it also stores back
adaptive_get_chunk_size(state) ==
    IF state.current_chunk_size < MIN_CHUNK_SIZE THEN MIN_CHUNK_SIZE
    ELSE IF state.current_chunk_size > MAX_CHUNK_SIZE THEN MAX_CHUNK_SIZE
    ELSE state.current_chunk_size

calculate_new_chunk_size_low_floor(sum, count) ==
    IF sum < 1 * MB * count THEN MIN_CHUNK_SIZE \div 2
    ELSE IF sum < 10 * MB * count THEN 64 * 1024
    ELSE IF sum < 50 * MB * count THEN 256 * 1024
    ELSE IF sum < 100 * MB * count THEN 1024 * 1024
    ELSE MAX_CHUNK_SIZE

\* calculate_new_chunk_size(avg_speed) for avg_speed = sum / count: the code
\* compares the quotient with each threshold, here both sides are scaled by count
calculate_new_chunk_size(sum, count) ==
    IF sum < 1 * MB * count THEN MIN_CHUNK_SIZE
    ELSE IF sum < 10 * MB * count THEN 64 * 1024
    ELSE IF sum < 50 * MB * count THEN 256 * 1024
    ELSE IF sum < 100 * MB * count THEN 1024 * 1024
    ELSE MAX_CHUNK_SIZE

RECURSIVE SumTo(_, _)
SumTo(f, n) == IF n = 0 THEN 0 ELSE f[n] + SumTo(f, n - 1)

SampleSum_latest_only(state) ==
    state.sample_count
      * state.speed_samples[((state.sample_index + SPEED_SAMPLES - 1) % SPEED_SAMPLES) + 1]

\* the loop of adaptive_update that adds speed_samples[0 .. sample_count-1]
SampleSum(state) == SumTo(state.speed_samples, state.sample_count)

adaptive_update_same_slot(state, bytes_transferred, elapsed_time, t) ==
    IF elapsed_time <= 0 THEN state
    ELSE LET s1 == [state EXCEPT
                       !.speed_samples[state.sample_index + 1] =
                            bytes_transferred \div elapsed_time,
                       !.sample_count = IF @ < SPEED_SAMPLES THEN @ + 1 ELSE @,
                       !.bytes_transferred = @ + bytes_transferred,
                       !.bytes_sent_or_received = @ + bytes_transferred]
         IN IF t - state.last_adjustment_time >= ADJUSTMENT_INTERVAL
            THEN [s1 EXCEPT
                     !.current_chunk_size =
                          calculate_new_chunk_size(SampleSum(s1), s1.sample_count),
                     !.last_adjustment_time = t,
                     !.bytes_transferred = 0]
            ELSE s1

adaptive_update_adjusts_without_time(state, bytes_transferred, elapsed_time, t) ==
    IF elapsed_time <= 0
    THEN IF t - state.last_adjustment_time >= ADJUSTMENT_INTERVAL
         THEN [state EXCEPT
                  !.current_chunk_size =
                       calculate_new_chunk_size(SampleSum(state), state.sample_count + 1),
                  !.last_adjustment_time = t,
                  !.bytes_transferred = 0]
         ELSE state
    ELSE LET s1 == [state EXCEPT
                       !.speed_samples[state.sample_index + 1] =
                            bytes_transferred \div elapsed_time,
                       !.sample_index = (@ + 1) % SPEED_SAMPLES,
                       !.sample_count = IF @ < SPEED_SAMPLES THEN @ + 1 ELSE @,
                       !.bytes_transferred = @ + bytes_transferred,
                       !.bytes_sent_or_received = @ + bytes_transferred]
         IN IF t - state.last_adjustment_time >= ADJUSTMENT_INTERVAL
            THEN [s1 EXCEPT
                     !.current_chunk_size =
                          calculate_new_chunk_size(SampleSum(s1), s1.sample_count),
                     !.last_adjustment_time = t,
                     !.bytes_transferred = 0]
            ELSE s1

adaptive_update_skips_slot(state, bytes_transferred, elapsed_time, t) ==
    IF elapsed_time <= 0 THEN state
    ELSE LET s1 == [state EXCEPT
                       !.speed_samples[state.sample_index + 1] =
                            bytes_transferred \div elapsed_time,
                       !.sample_index = (@ + 2) % SPEED_SAMPLES,
                       !.sample_count = IF @ < SPEED_SAMPLES THEN @ + 1 ELSE @,
                       !.bytes_transferred = @ + bytes_transferred,
                       !.bytes_sent_or_received = @ + bytes_transferred]
         IN IF t - state.last_adjustment_time >= ADJUSTMENT_INTERVAL
            THEN [s1 EXCEPT
                     !.current_chunk_size =
                          calculate_new_chunk_size(SampleSum(s1), s1.sample_count),
                     !.last_adjustment_time = t,
                     !.bytes_transferred = 0]
            ELSE s1

\* adaptive_update(state, bytes_transferred, elapsed_time) when time(NULL)
\* returns t. chunk_speed is the quotient of the two arguments; the calls
\* followed here pass arguments whose quotient is a whole number.
adaptive_update(state, bytes_transferred, elapsed_time, t) ==
    IF elapsed_time <= 0 THEN state
    ELSE LET s1 == [state EXCEPT
                       !.speed_samples[state.sample_index + 1] =
                            bytes_transferred \div elapsed_time,
                       !.sample_index = (@ + 1) % SPEED_SAMPLES,
                       !.sample_count = IF @ < SPEED_SAMPLES THEN @ + 1 ELSE @,
                       !.bytes_transferred = @ + bytes_transferred,
                       !.bytes_sent_or_received = @ + bytes_transferred]
         IN IF t - state.last_adjustment_time >= ADJUSTMENT_INTERVAL
            THEN [s1 EXCEPT
                     !.current_chunk_size =
                          calculate_new_chunk_size(SampleSum(s1), s1.sample_count),
                     !.last_adjustment_time = t,
                     !.bytes_transferred = 0]
            ELSE s1

adaptive_reset_keeps_samples(state, t) ==
    [state EXCEPT !.last_adjustment_time = t, !.transfer_start_time = t,
                  !.bytes_transferred = 0, !.bytes_sent_or_received = 0,
                  !.total_bytes = 0]

\* adaptive_reset(state) when time(NULL) returns t
adaptive_reset(state, t) ==
    [adaptive_init(0, t) EXCEPT !.current_chunk_size = state.current_chunk_size]

\* the tier size of one speed
TierOf(speed) == calculate_new_chunk_size(speed, 1)

\* what is remembered of the calls on ad: their number, the last one with its
\* arguments, the last value adaptive_get_chunk_size returned, and the run of
\* consecutive updates whose speeds lie in one tier (settled: an adjustment was
\* made with SPEED_SAMPLES or more of them recorded)
au0 == [calls |-> 0, fn |-> "adaptive_init", bytes |-> 0, elapsed |-> 0,
        got |-> INITIAL_CHUNK_SIZE, tier |-> 0, run |-> 0, settled |-> FALSE]

\* the arguments of the adaptive_update calls followed: about 500 KB/s, exactly
\* 1 MB/s, 200 MB/s, and calls with no time or a negative time elapsed
UpdateBytes == {512000, MB, 200 * MB}
UpdateElapsed == {0 - 1, 0, 1}

\* ------------------------------------------------------------ signals
\* how many SIGINTs one process is sent
MaxSig == 2

\* signals_should_shutdown() for a given sigint_count; signals_acknowledge_shutdown()
\* leaves the count as it is
signals_should_shutdown(count) == IF count >= 2 THEN 2 ELSE IF count = 1 THEN 1 ELSE 0

NoFrame == Frame("NONE", <<>>, 0, <<>>, <<>>, 0, NoEntries, <<>>)

rx0 == [file_size |-> 0, filename_len |-> 0, target_dir_len |-> 0, total_files |-> 0,
        base_path_len |-> 0, filename |-> <<>>, target_dir |-> <<>>, base_dir |-> <<>>,
        full_path |-> <<>>, open |-> FALSE, total_received |-> 0, files_received |-> 0,
        body_start |-> 0]

Stale == <<9, 9, 9>>
InitFs ==
    { [dirs |-> {}, files |-> <<>>],
      [dirs |-> {<< <<cT>> >>, << <<cR>> >>},
       files |-> [n \in {<< <<cA>> >>, << <<cT>>, <<cA>> >>, << <<cR>>, <<cA>> >>} |-> Stale]] }

InitReceiver ==
    /\ rpos = 0 /\ rpc = "loop" /\ rneed = 0 /\ rbuf = <<>> /\ rx = rx0
    /\ ttype = <<>> /\ handler = "none" /\ hstart = 0 /\ rret = <<>>
    /\ fsops = <<>> /\ rlog = <<>>
    \* the working directory is empty, or holds stale files where a transfer writes
    /\ \E fs \in InitFs : rdirs = fs.dirs /\ rfiles = fs.files

NoTarget == [null |-> TRUE, s |-> <<>>]
sx0 == [op |-> "none", path |-> <<>>, target |-> NoTarget, file_size |-> 0,
        name |-> <<>>, sanitized |-> <<>>, total_files |-> 0, total_size |-> 0,
        stack |-> <<>>, rel |-> <<>>, file |-> <<>>, fpos |-> 0, flen |-> 0]

NoCall == [fn |-> "none"]
srv0 == [open |-> 0, accepts |-> 0, closes |-> 0, backlog |-> 0]

\* no transfer has started, no signal has arrived, no client has connected
InitQuiet ==
    /\ ad = adaptive_init(0, 0) /\ now = 0 /\ au = au0
    /\ rsig = 0 /\ ssig = 0 /\ rprompts = 0 /\ sprompts = 0
    /\ conn = "none"
    /\ call = NoCall
    /\ srv = srv0

InitPeer ==
    /\ mode = "peer"
    /\ frame \in PeerFrames
    /\ wire = Encode(HostLE, frame)
    /\ closed = FALSE
    /\ spc = "none" /\ sx = sx0 /\ slog = <<>>
    /\ InitReceiver
    /\ InitQuiet

Avail == Len(wire) - rpos

\* states in which the receiver is inside recv_all
InRecvAll == rpc \in {"magic", "f_hdr", "f_name", "f_body", "t_hdr", "t_name", "t_targ",
                      "d_hdr", "d_base", "td_hdr", "td_base", "td_targ",
                      "e_hdr", "e_name", "e_body"}

\* the receiver has read a whole field of n bytes
LogField(what, n) == rlog' = Append(rlog, <<what, n>>)
\* the receiver has read n more bytes of a file's content
LogContent(n) ==
    rlog' = IF rlog /= <<>> /\ rlog[Len(rlog)][1] = "content"
            THEN [rlog EXCEPT ![Len(rlog)] = <<"content", @[2] + n>>]
            ELSE Append(rlog, <<"content", n>>)

\* start recv_all(s, buf, len) at control point pc
Await(pc, len) == rpc' = pc /\ rneed' = len /\ rbuf' = <<>>

\* the handler returns v to receive_file (every FILE* it holds is closed first)
Return(v) == rret' = <<v>> /\ rpc' = "close" /\ rneed' = 0 /\ rbuf' = <<>>

\* accept() returns the connection; detect_transfer_type starts to read the magic
Accept ==
    /\ rpc = "accept"
    /\ conn = "waiting"
    /\ conn' = "taken"
    /\ srv' = [srv EXCEPT !.open = @ + 1, !.accepts = @ + 1, !.closes = 0]
    /\ Await("magic", MAGIC_SIZE)
    /\ UNCHANGED <<call, avars, sigs, rprompts, sprompts, svars, rlog, mode, frame, wire, closed, rpos, rx, ttype, handler, hstart, rret,
                   rdirs, rfiles, fsops>>

\* one recv() inside recv_all: any number of the bytes still wanted, as available
SockRecv ==
    /\ InRecvAll
    /\ Len(rbuf) < rneed
    /\ \E k \in 1..Min(rneed - Len(rbuf), Avail) :
          /\ rbuf' = rbuf \o SubSeq(wire, rpos + 1, rpos + k)
          /\ rpos' = rpos + k
    /\ UNCHANGED <<evars, svars, rlog, mode, frame, wire, closed, rpc, rneed, rx, ttype, handler, hstart, rret,
                   rdirs, rfiles, fsops>>

\* a recv_all that takes the end of the stream for completion: the caller goes on
\* with what it has, and a content loop ends in success
RecvAllClosed_as_success ==
    /\ InRecvAll
    /\ Len(rbuf) < rneed
    /\ Avail = 0 /\ closed
    /\ IF rpc = "magic"
       THEN /\ ttype' = <<-1>>
            /\ rpc' = "close" /\ rneed' = 0 /\ rbuf' = <<>>
            /\ UNCHANGED <<rret, rx>>
       ELSE /\ rret' = <<0>> /\ rpc' = "close" /\ rneed' = 0 /\ rbuf' = <<>>
            /\ rx' = [rx EXCEPT !.open = FALSE]
            /\ UNCHANGED ttype
    /\ UNCHANGED <<evars, svars, rlog, mode, frame, wire, closed, rpos, handler, hstart, rdirs, rfiles, fsops>>

\* recv() returns 0 inside recv_all: recv_all returns -1, and so does its caller
\* (detect_transfer_type, or the handler after fclose and free)
RecvAllClosed ==
    /\ InRecvAll
    /\ Len(rbuf) < rneed
    /\ Avail = 0 /\ closed
    /\ IF rpc = "magic"
       THEN /\ ttype' = <<-1>>
            /\ rpc' = "close" /\ rneed' = 0 /\ rbuf' = <<>>
            /\ UNCHANGED <<rret, rx>>
       ELSE /\ Return(-1)
            /\ rx' = [rx EXCEPT !.open = FALSE]
            /\ UNCHANGED ttype
    /\ UNCHANGED <<evars, svars, rlog, mode, frame, wire, closed, rpos, handler, hstart, rdirs, rfiles, fsops>>

\* the other end closes the connection having sent no more than was consumed
PeerClose ==
    /\ mode = "peer"
    /\ ~closed
    /\ rpc \notin {"loop", "accept", "close", "idle", "exited", "aborted"}
    /\ closed' = TRUE
    /\ wire' = Take(wire, rpos)
    /\ UNCHANGED <<evars, svars, rlog, mode, frame, rpos, rpc, rneed, rbuf, rx, ttype, handler, hstart, rret,
                   rdirs, rfiles, fsops>>

\* a detect_transfer_type that takes every unknown magic for FILE
MagicType_default_file(magic_host) ==
    IF magic_host = DIR_MAGIC THEN 1
    ELSE IF magic_host = TARGET_FILE_MAGIC THEN 2
    ELSE IF magic_host = TARGET_DIR_MAGIC THEN 3
    ELSE 0

\* the value detect_transfer_type returns for a magic in host order
MagicType(magic_host) ==
    IF magic_host = FILE_MAGIC THEN 0
    ELSE IF magic_host = DIR_MAGIC THEN 1
    ELSE IF magic_host = TARGET_FILE_MAGIC THEN 2
    ELSE IF magic_host = TARGET_DIR_MAGIC THEN 3
    ELSE -1

\* detect_transfer_type has its 4 bytes; receive_file dispatches on the result
DetectTransferType ==
    /\ rpc = "magic" /\ Len(rbuf) = rneed
    /\ LogField("magic", rneed)
    /\ LET magic_host == ntohl(HostLE, FromMem(HostLE, rbuf))
           t == MagicType(magic_host)
       IN /\ ttype' = <<t>>
          /\ hstart' = rpos
          /\ CASE t = 0 -> handler' = "recv_file_protocol" /\ Await("f_hdr", HEADER_SIZE)
               [] t = 1 -> handler' = "recv_directory_protocol"
                           /\ Await("d_hdr", DIR_HEADER_SIZE)
               [] t = 2 -> handler' = "recv_file_with_target_protocol"
                           /\ Await("t_hdr", TARGET_FILE_HEADER_SIZE)
               [] t = 3 -> handler' = "recv_directory_with_target_protocol"
                           /\ Await("td_hdr", TARGET_DIR_HEADER_SIZE)
               [] OTHER -> handler' = handler /\ rpc' = "close" /\ rneed' = 0 /\ rbuf' = <<>>
    /\ UNCHANGED <<evars, svars, mode, frame, wire, closed, rpos, rx, rret, rdirs, rfiles, fsops>>

\* ------------------------------------------------- receive handlers
Put(f, k, v) == [y \in DOMAIN f \cup {k} |-> IF y = k THEN v ELSE f[y]]
MkdirOps(paths) == [i \in 1..Len(paths) |-> [op |-> "mkdir", path |-> paths[i]]]
FopenOp(path) == [op |-> "fopen", path |-> path]

\* snprintf(out, sizeof(out), "%s/%s", a, b)
JoinPath(a, b) == CStr(a) \o <<SLASH>> \o CStr(b)

\* the part of a path before its last '/' (strrchr, then *last_slash = '\0')
DirName(p) ==
    LET ix == {i \in 1..Len(p) : p[i] = SLASH}
        last == CHOOSE i \in ix : \A j \in ix : j <= i
    IN SubSeq(p, 1, last - 1)

\* a to_receive that is not capped by what is left of the file
ToReceive_uncapped(remaining, chunk_size) == chunk_size

\* a to_receive that takes all that is left of the file at once
ToReceive_whole_file(remaining, chunk_size) == remaining

\* to_receive = min(file_size - total_received, chunk_size), for whichever size
\* adaptive_get_chunk_size returns
ToReceive(remaining, chunk_size) == Min(remaining, chunk_size)

\* an end-marker test that looks at the size alone
IsEndMarker_size_only(file_size, filename_len) == file_size = 0

\* "Check for end marker" in receive_single_file_in_dir
IsEndMarker(file_size, filename_len) == file_size = 0 /\ filename_len = 0

\* a loop test that runs one entry too far
TDirMore_inclusive(files_received, total_files) == files_received <= total_files

\* the loop test of recv_directory_with_target_protocol
TDirMore(files_received, total_files) == files_received < total_files

\* a caller that takes the end marker for the end of the tree in both directory
\* handlers
EntryReturn_marker_ends_tdir(result, nrx) ==
    IF result = 1 THEN Return(0) /\ rx' = nrx
    ELSE IF result /= 0 THEN Return(-1) /\ rx' = nrx
    ELSE IF handler = "recv_directory_protocol"
            \/ TDirMore(nrx.files_received + 1, nrx.total_files)
         THEN /\ rx' = [nrx EXCEPT !.files_received = @ + 1]
              /\ Await("e_hdr", HEADER_SIZE) /\ rret' = rret
         ELSE Return(0) /\ rx' = [nrx EXCEPT !.files_received = @ + 1]

\* receive_single_file_in_dir returns result to the loop of its caller
EntryReturn(result, nrx) ==
    IF handler = "recv_directory_protocol"
    THEN IF result = 1 THEN Return(0) /\ rx' = nrx
         ELSE IF result /= 0 THEN Return(-1) /\ rx' = nrx
         ELSE /\ rx' = [nrx EXCEPT !.files_received = @ + 1]
              /\ Await("e_hdr", HEADER_SIZE) /\ rret' = rret
    ELSE IF result /= 0 THEN Return(-1) /\ rx' = nrx
         ELSE IF TDirMore(nrx.files_received + 1, nrx.total_files)
              THEN /\ rx' = [nrx EXCEPT !.files_received = @ + 1]
                   /\ Await("e_hdr", HEADER_SIZE) /\ rret' = rret
              ELSE Return(0) /\ rx' = [nrx EXCEPT !.files_received = @ + 1]

\* the function at control point pc returns v
Leave(pc, v, nrx) ==
    IF pc = "e_body" THEN EntryReturn(v, nrx) ELSE Return(v) /\ rx' = nrx

\* fopen(path, "wb") and the start of the content loop, whose recv is awaited at
\* bodypc; ops are the mkdir calls made just before, dirs their outcome
OpenOutput(path, bodypc, nrx, dirs, ops) ==
    /\ fsops' = fsops \o ops \o <<FopenOp(path)>>
    /\ rdirs' = dirs
    /\ IF FopenFails(path, dirs, rfiles)
       THEN /\ rfiles' = rfiles
            /\ Leave(bodypc, -1, nrx)
       ELSE /\ rfiles' = Put(rfiles, Norm(path), <<>>)
            /\ IF nrx.file_size = 0
               THEN Leave(bodypc, 0, [nrx EXCEPT !.full_path = path, !.total_received = 0,
                                                 !.body_start = rpos])
               ELSE /\ rx' = [nrx EXCEPT !.full_path = path, !.open = TRUE,
                                         !.total_received = 0, !.body_start = rpos]
                    /\ \E c \in ChunkSizes :
                          Await(bodypc, ToReceive(nrx.file_size, c))
                    /\ rret' = rret

\* a directory could not be created: the function at bodypc returns -1
MkdirFailed(bodypc, nrx, dirs, ops) ==
    /\ fsops' = fsops \o ops
    /\ rdirs' = dirs
    /\ rfiles' = rfiles
    /\ Leave(bodypc, -1, nrx)

\* fwrite(buffer, 1, n, file) of the bytes just received, and the loop test
\* then the poll of signals_should_shutdown: 1 prints the prompt, 2 closes the file
\* and calls exit(EXIT_FAILURE)
WriteChunk(bodypc, bytes) ==
    LET total == rx.total_received + Len(bytes)
        nrx == [rx EXCEPT !.total_received = total]
        shutdown == signals_should_shutdown(rsig)
    IN /\ rfiles' = [rfiles EXCEPT ![Norm(rx.full_path)] = @ \o bytes]
       /\ rprompts' = IF shutdown = 1 THEN rprompts + 1 ELSE rprompts
       /\ IF shutdown = 2
          THEN /\ rx' = [nrx EXCEPT !.open = FALSE]
               /\ rpc' = "aborted" /\ rneed' = 0 /\ rbuf' = <<>>
               /\ rret' = rret
          ELSE IF total < rx.file_size
          THEN /\ rx' = nrx
               /\ \E c \in ChunkSizes : Await(bodypc, ToReceive(rx.file_size - total, c))
               /\ rret' = rret
          ELSE Leave(bodypc, 0, [nrx EXCEPT !.open = FALSE])

\* recv_file_protocol: the 16-byte header is in
FileHeader ==
    /\ rpc = "f_hdr" /\ Len(rbuf) = rneed
    /\ LogField("header", rneed)
    /\ LET file_size == Num(Field(HostLE, rbuf, 1))
           filename_len == Num(Field(HostLE, rbuf, 2))
       IN /\ rx' = [rx EXCEPT !.file_size = file_size, !.filename_len = filename_len]
          /\ Await("f_name", filename_len)
    /\ UNCHANGED <<evars, svars, mode, frame, wire, closed, rpos, ttype, handler, hstart, rret, rdirs,
                   rfiles, fsops>>

\* recv_file_protocol: the filename is in; fopen(filename, "wb")
FileName ==
    /\ rpc = "f_name" /\ Len(rbuf) = rneed
    /\ LogField("name", rneed)
    /\ OpenOutput(CStr(rbuf), "f_body", [rx EXCEPT !.filename = rbuf], rdirs, <<>>)
    /\ UNCHANGED <<evars, svars, mode, frame, wire, closed, rpos, ttype, handler, hstart>>

\* a chunk of content is in (recv_all returned 0): fwrite, next chunk or return
Chunk ==
    /\ rpc \in {"f_body", "e_body"} /\ Len(rbuf) = rneed
    /\ LogContent(rneed)
    /\ WriteChunk(rpc, rbuf)
    /\ UNCHANGED <<srv, call, avars, sigs, sprompts, conn, svars, mode, frame, wire, closed, rpos, ttype, handler, hstart, rdirs, fsops>>

\* recv_file_with_target_protocol: the 24-byte header is in
TargHeader ==
    /\ rpc = "t_hdr" /\ Len(rbuf) = rneed
    /\ LogField("header", rneed)
    /\ LET file_size == Num(Field(HostLE, rbuf, 1))
           filename_len == Num(Field(HostLE, rbuf, 2))
           target_dir_len == Num(Field(HostLE, rbuf, 3))
       IN /\ rx' = [rx EXCEPT !.file_size = file_size, !.filename_len = filename_len,
                              !.target_dir_len = target_dir_len]
          /\ Await("t_name", filename_len)
    /\ UNCHANGED <<evars, svars, mode, frame, wire, closed, rpos, ttype, handler, hstart, rret, rdirs,
                   rfiles, fsops>>

\* recv_file_with_target_protocol from "Create target directory if specified" on;
\* target_dir is the received buffer, <<>> for NULL
TargOpen(nrx) ==
    IF CStr(nrx.target_dir) /= <<>>
    THEN LET m == create_directory_recursive(nrx.target_dir, rdirs, rfiles) IN
         IF ~m.ok THEN MkdirFailed("t_body", nrx, m.dirs, MkdirOps(m.ops))
         ELSE OpenOutput(JoinPath(nrx.target_dir, nrx.filename), "t_body", nrx, m.dirs,
                         MkdirOps(m.ops))
    ELSE OpenOutput(CStr(nrx.filename), "t_body", nrx, rdirs, <<>>)

\* the filename is in; the target directory is read next if target_dir_len > 0
TargName ==
    /\ rpc = "t_name" /\ Len(rbuf) = rneed
    /\ LogField("name", rneed)
    /\ IF rx.target_dir_len > 0
       THEN /\ rx' = [rx EXCEPT !.filename = rbuf]
            /\ Await("t_targ", rx.target_dir_len)
            /\ UNCHANGED <<rret, rdirs, rfiles, fsops>>
       ELSE TargOpen([rx EXCEPT !.filename = rbuf])
    /\ UNCHANGED <<evars, svars, mode, frame, wire, closed, rpos, ttype, handler, hstart>>

\* the target directory is in
TargTarget ==
    /\ rpc = "t_targ" /\ Len(rbuf) = rneed
    /\ LogField("target", rneed)
    /\ TargOpen([rx EXCEPT !.target_dir = rbuf])
    /\ UNCHANGED <<evars, svars, mode, frame, wire, closed, rpos, ttype, handler, hstart>>

\* recv_file_with_target_protocol reads content with one recv() per turn of the
\* loop and writes whatever that call returned
TargBodyRecv ==
    /\ rpc = "t_body"
    /\ \E k \in 1..Min(rneed, Avail) :
          /\ rpos' = rpos + k
          /\ LogContent(k)
          /\ WriteChunk("t_body", SubSeq(wire, rpos + 1, rpos + k))
    /\ UNCHANGED <<srv, call, avars, sigs, sprompts, conn, svars, mode, frame, wire, closed, ttype, handler, hstart, rdirs, fsops>>

\* recv() <= 0 in that loop: fclose, free, return -1
TargBodyClosed ==
    /\ rpc = "t_body"
    /\ Avail = 0 /\ closed
    /\ Return(-1)
    /\ rx' = [rx EXCEPT !.open = FALSE]
    /\ UNCHANGED <<evars, svars, rlog, mode, frame, wire, closed, rpos, ttype, handler, hstart, rdirs, rfiles,
                   fsops>>

\* recv_directory_protocol: the 24-byte header is in
DirHeader ==
    /\ rpc = "d_hdr" /\ Len(rbuf) = rneed
    /\ LogField("header", rneed)
    /\ LET total_files == Num(Field(HostLE, rbuf, 1))
           base_name_len == Num(Field(HostLE, rbuf, 3))
       IN /\ rx' = [rx EXCEPT !.total_files = total_files, !.base_path_len = base_name_len]
          /\ Await("d_base", base_name_len)
    /\ UNCHANGED <<evars, svars, mode, frame, wire, closed, rpos, ttype, handler, hstart, rret, rdirs,
                   rfiles, fsops>>

\* the base name is in: create_directory_recursive(base_name), then the entry loop
DirBase ==
    /\ rpc = "d_base" /\ Len(rbuf) = rneed
    /\ LogField("name", rneed)
    /\ LET m == create_directory_recursive(rbuf, rdirs, rfiles)
           nrx == [rx EXCEPT !.base_dir = rbuf]
       IN /\ fsops' = fsops \o MkdirOps(m.ops)
          /\ rdirs' = m.dirs
          /\ rx' = nrx
          /\ IF ~m.ok THEN Return(-1)
             ELSE Await("e_hdr", HEADER_SIZE) /\ rret' = rret
    /\ UNCHANGED <<evars, svars, mode, frame, wire, closed, rpos, ttype, handler, hstart, rfiles>>

\* recv_directory_with_target_protocol: the 32-byte header is in
TDirHeader ==
    /\ rpc = "td_hdr" /\ Len(rbuf) = rneed
    /\ LogField("header", rneed)
    /\ LET total_files == Num(Field(HostLE, rbuf, 1))
           base_path_len == Num(Field(HostLE, rbuf, 3))
           target_dir_len == Num(Field(HostLE, rbuf, 4))
       IN /\ rx' = [rx EXCEPT !.total_files = total_files, !.base_path_len = base_path_len,
                              !.target_dir_len = target_dir_len]
          /\ Await("td_base", base_path_len)
    /\ UNCHANGED <<evars, svars, mode, frame, wire, closed, rpos, ttype, handler, hstart, rret, rdirs,
                   rfiles, fsops>>

\* recv_directory_with_target_protocol from "Create full target path" on; base_dir
\* holds the received base name and becomes full_target_path
TDirOpen(nrx) ==
    LET hasT == CStr(nrx.target_dir) /= <<>>
        m1 == IF hasT THEN create_directory_recursive(nrx.target_dir, rdirs, rfiles)
              ELSE [ok |-> TRUE, dirs |-> rdirs, ops |-> <<>>]
        full_target_path == IF hasT THEN JoinPath(nrx.target_dir, nrx.base_dir)
                            ELSE CStr(nrx.base_dir)
        m2 == create_directory_recursive(full_target_path, m1.dirs, rfiles)
        nrx2 == [nrx EXCEPT !.base_dir = full_target_path]
    IN /\ rfiles' = rfiles
       /\ IF ~m1.ok
          THEN /\ fsops' = fsops \o MkdirOps(m1.ops) /\ rdirs' = m1.dirs
               /\ Return(-1) /\ rx' = nrx
          ELSE /\ fsops' = fsops \o MkdirOps(m1.ops) \o MkdirOps(m2.ops)
               /\ rdirs' = m2.dirs
               /\ rx' = nrx2
               /\ IF ~m2.ok THEN Return(-1)
                  ELSE IF TDirMore(0, nrx.total_files)
                       THEN Await("e_hdr", HEADER_SIZE) /\ rret' = rret
                       ELSE Return(0)

\* the base name is in; the target directory is read next if target_dir_len > 0
TDirBase ==
    /\ rpc = "td_base" /\ Len(rbuf) = rneed
    /\ LogField("name", rneed)
    /\ IF rx.target_dir_len > 0
       THEN /\ rx' = [rx EXCEPT !.base_dir = rbuf]
            /\ Await("td_targ", rx.target_dir_len)
            /\ UNCHANGED <<rret, rdirs, rfiles, fsops>>
       ELSE TDirOpen([rx EXCEPT !.base_dir = rbuf])
    /\ UNCHANGED <<evars, svars, mode, frame, wire, closed, rpos, ttype, handler, hstart>>

\* the target directory is in
TDirTarget ==
    /\ rpc = "td_targ" /\ Len(rbuf) = rneed
    /\ LogField("target", rneed)
    /\ TDirOpen([rx EXCEPT !.target_dir = rbuf])
    /\ UNCHANGED <<evars, svars, mode, frame, wire, closed, rpos, ttype, handler, hstart>>

\* receive_single_file_in_dir: the entry's 16-byte header is in
EntryHeader ==
    /\ rpc = "e_hdr" /\ Len(rbuf) = rneed
    /\ LogField(IF IsEndMarker(Num(Field(HostLE, rbuf, 1)), Num(Field(HostLE, rbuf, 2)))
                THEN "end_marker" ELSE "entry_header", rneed)
    /\ LET file_size == Num(Field(HostLE, rbuf, 1))
           filename_len == Num(Field(HostLE, rbuf, 2))
           nrx == [rx EXCEPT !.file_size = file_size, !.filename_len = filename_len,
                             !.filename = <<>>, !.full_path = <<>>, !.total_received = 0,
                             !.body_start = 0]
       IN IF IsEndMarker(file_size, filename_len)
          THEN EntryReturn(1, nrx)
          ELSE rx' = nrx /\ Await("e_name", filename_len) /\ rret' = rret
    /\ UNCHANGED <<evars, svars, mode, frame, wire, closed, rpos, ttype, handler, hstart, rdirs, rfiles,
                   fsops>>

\* the entry's relative path is in: make its directories, fopen, content loop
EntryName ==
    /\ rpc = "e_name" /\ Len(rbuf) = rneed
    /\ LogField("path", rneed)
    /\ LET full_path == JoinPath(rx.base_dir, rbuf)
           nrx == [rx EXCEPT !.filename = rbuf]
           m == create_directory_recursive(DirName(full_path), rdirs, rfiles)
       IN IF ~m.ok THEN MkdirFailed("e_body", nrx, m.dirs, MkdirOps(m.ops))
          ELSE OpenOutput(full_path, "e_body", nrx, m.dirs, MkdirOps(m.ops))
    /\ UNCHANGED <<evars, svars, mode, frame, wire, closed, rpos, ttype, handler, hstart>>

CloseClient_socket_left_open ==
    /\ rpc = "close"
    /\ rpc' = "idle"
    /\ UNCHANGED <<evars, svars, rlog, mode, frame, wire, closed, rpos, rneed, rbuf, rx, ttype, handler, hstart,
                   rret, rdirs, rfiles, fsops>>

\* close_socket(client_socket); the server goes back to accept
CloseClient ==
    /\ rpc = "close"
    /\ rpc' = "idle"
    /\ srv' = [srv EXCEPT !.open = @ - 1, !.closes = @ + 1]
    /\ UNCHANGED <<avars, sigs, rprompts, sprompts, conn, call, svars, rlog, mode, frame, wire, closed, rpos, rneed, rbuf, rx, ttype, handler, hstart,
                   rret, rdirs, rfiles, fsops>>

\* ------------------------------------------------------------ the sender
\* The sender's working directory: r/a (MaxBody bytes), r/b/a (empty), the
\* directory r/b/e that holds no file, only the named pipe r/b/e/p, and beside r
\* an empty file whose name is a, '\', a.
SrcDirs == { << <<cR>> >>, << <<cR>>, <<cB>> >>, << <<cR>>, <<cB>>, <<cE>> >> }
SrcFiles == [n \in { << <<cR>>, <<cA>> >>, << <<cR>>, <<cB>>, <<cA>> >>,
                     << <<cA, BSLASH, cA>> >> } |->
               IF Len(n) = 2 THEN Body(MaxBody) ELSE <<>>]

\* entries for which stat reports neither S_ISDIR nor S_ISREG
SrcOther == { << <<cR>>, <<cB>>, <<cE>>, <<Letter.p>> >> }

\* counts every entry that is not a directory, regular or not
RECURSIVE count_directory_files_counts_all(_)
count_directory_files_counts_all(d) ==
    LET Below(x) == { m \in SrcDirs \cup DOMAIN SrcFiles \cup SrcOther :
                        Len(m) = Len(x) + 1 /\ SubSeq(m, 1, Len(x)) = x }
        RECURSIVE Acc(_)
        Acc(S) ==
          IF S = {} THEN [files |-> 0, size |-> 0]
          ELSE LET n == CHOOSE y \in S : TRUE
                   rest == Acc(S \ {n})
               IN IF n \in SrcDirs
                  THEN LET sub == count_directory_files_counts_all(n) IN
                       [files |-> rest.files + sub.files, size |-> rest.size + sub.size]
                  ELSE [files |-> rest.files + 1,
                        size |-> rest.size + IF n \in DOMAIN SrcFiles THEN Len(SrcFiles[n]) ELSE 0]
        r == Acc(Below(d))
    IN IF d \notin SrcDirs THEN [ok |-> FALSE, files |-> 0, size |-> 0]
       ELSE [ok |-> TRUE, files |-> r.files, size |-> r.size]

\* the names readdir returns for a directory, "." and ".." left out
Children(d) ==
    { n[Len(n)] : n \in { m \in SrcDirs \cup DOMAIN SrcFiles \cup SrcOther :
                            Len(m) = Len(d) + 1 /\ SubSeq(m, 1, Len(d)) = d } }

\* strrchr(path, '/'), then past the separator; the whole path when there is none
BaseName(path) ==
    LET ix == {i \in 1..Len(path) : path[i] = SLASH} IN
    IF ix = {} THEN path
    ELSE SubSeq(path, (CHOOSE i \in ix : \A j \in ix : j <= i) + 1, Len(path))

PATH_BUF == 4096

RECURSIVE StripSlashes(_)
StripSlashes(p) == IF p /= <<>> /\ Head(p) = SLASH THEN StripSlashes(Tail(p)) ELSE p

validate_target_directory_slash_stripped(target_dir, buffer_size) ==
    IF target_dir.null THEN [ok |-> FALSE, out |-> <<>>]
    ELSE LET t == CStr(target_dir.s)
             clean_path == StripSlashes(t)
         IN IF t = <<>> THEN [ok |-> TRUE, out |-> <<>>]
            ELSE IF HasDotDot(t) THEN [ok |-> FALSE, out |-> <<>>]
            ELSE IF Len(clean_path) > buffer_size - 2 THEN [ok |-> FALSE, out |-> <<>>]
            ELSE [ok |-> TRUE, out |-> Take(clean_path, buffer_size - 1)]

validate_target_directory_dotdot_allowed(target_dir, buffer_size) ==
    IF target_dir.null THEN [ok |-> FALSE, out |-> <<>>]
    ELSE LET t == CStr(target_dir.s)
             clean_path == StripSlashes(t)
         IN IF t = <<>> THEN [ok |-> TRUE, out |-> <<>>]
            ELSE IF t[1] = SLASH THEN [ok |-> FALSE, out |-> <<>>]
            ELSE IF Len(clean_path) > buffer_size - 2 THEN [ok |-> FALSE, out |-> <<>>]
            ELSE [ok |-> TRUE, out |-> Take(clean_path, buffer_size - 1)]

\* validate_target_directory(target_dir, sanitized_dir, buffer_size): [ok, out]
validate_target_directory(target_dir, buffer_size) ==
    IF target_dir.null THEN [ok |-> FALSE, out |-> <<>>]
    ELSE LET t == CStr(target_dir.s)
             clean_path == StripSlashes(t)
         IN IF t = <<>> THEN [ok |-> TRUE, out |-> <<>>]
            ELSE IF HasDotDot(t) THEN [ok |-> FALSE, out |-> <<>>]
            ELSE IF t[1] = SLASH THEN [ok |-> FALSE, out |-> <<>>]
            ELSE IF Len(clean_path) > buffer_size - 2 THEN [ok |-> FALSE, out |-> <<>>]
            ELSE [ok |-> TRUE, out |-> Take(clean_path, buffer_size - 1)]

\* count_directory_files over the directory d: [ok, files, size]
RECURSIVE count_directory_files(_)
count_directory_files(d) ==
    LET RECURSIVE Acc(_)
        Acc(S) ==
          IF S = {} THEN [files |-> 0, size |-> 0]
          ELSE LET c == CHOOSE y \in S : TRUE
                   rest == Acc(S \ {c})
                   n == Append(d, c)
               IN IF n \in SrcDirs
                  THEN LET sub == count_directory_files(n) IN
                       [files |-> rest.files + sub.files, size |-> rest.size + sub.size]
                  ELSE IF n \in DOMAIN SrcFiles
                       THEN [files |-> rest.files + 1, size |-> rest.size + Len(SrcFiles[n])]
                       ELSE rest
        r == Acc(Children(d))
    IN IF d \notin SrcDirs THEN [ok |-> FALSE, files |-> 0, size |-> 0]
       ELSE [ok |-> TRUE, files |-> r.files, size |-> r.size]

Str(t) == [null |-> FALSE, s |-> t]
SenderInputs ==
    {[sx0 EXCEPT !.op = "file", !.path = pth] :
        pth \in {<<cR, SLASH, cA>>, <<cR, SLASH, cB, SLASH, cA>>, <<cA, BSLASH, cA>>}}
    \cup {[sx0 EXCEPT !.op = "file_target", !.path = <<cR, SLASH, cA>>, !.target = t] :
        t \in {Str(<<>>), Str(<<cT>>), Str(<<cT, SLASH, cB>>), Str(<<SLASH, cT>>), NoTarget}}
    \cup {[sx0 EXCEPT !.op = "dir", !.path = pth] :
        pth \in {<<cR>>, <<cR, SLASH, cB>>, <<cR, SLASH>>, <<cR, SLASH, cA>>,
                 <<cR, SLASH, cB, SLASH, cE>>}}
    \cup {[sx0 EXCEPT !.op = "dir_target", !.path = pth, !.target = t] :
        pth \in {<<cR>>, <<cR, SLASH>>}, t \in {Str(<<>>), Str(<<cT>>)}}
    \cup {[sx0 EXCEPT !.op = "dir_target", !.path = pth, !.target = Str(<<cT, DOT, DOT>>)] :
        pth \in {<<cR>>, <<cR, SLASH, cA>>}}
    \cup {[sx0 EXCEPT !.op = "dir_target", !.path = <<cR, SLASH, cB, SLASH, cE>>,
                      !.target = Str(<<cT>>)]}

InitSender ==
    /\ mode = "sender"
    /\ frame = NoFrame
    /\ wire = <<>>
    /\ closed = FALSE
    /\ spc = "start" /\ sx \in SenderInputs /\ slog = <<>>
    /\ InitReceiver
    /\ InitQuiet

\* send_all(s, bytes, len) went through: the bytes are on the stream
Emit(what, bytes) ==
    /\ wire' = wire \o bytes
    /\ slog' = IF what = "content" /\ slog /= <<>> /\ slog[Len(slog)].what = "content"
               THEN [slog EXCEPT ![Len(slog)].bytes = @ \o bytes]
               ELSE Append(slog, [what |-> what, bytes |-> bytes])

\* exit(EXIT_FAILURE): the process ends and its socket closes
SenderExit == spc' = "failed" /\ closed' = TRUE /\ UNCHANGED <<wire, slog>>

IsFileOp == sx.op \in {"file", "file_target"}
HasTargetOp == sx.op \in {"file_target", "dir_target"}

\* the sender's steps up to its first send: fopen/stat, basename, validation, count
SenderStart ==
    /\ spc = "start"
    /\ conn /= "none"
    /\ LET n == Norm(sx.path)
           v == IF HasTargetOp THEN validate_target_directory(sx.target, PATH_BUF)
                ELSE [ok |-> TRUE, out |-> <<>>]
           cnt == count_directory_files(n)
       IN IF IsFileOp
          THEN IF n \notin DOMAIN SrcFiles \/ ~v.ok
               THEN SenderExit /\ sx' = sx
               ELSE /\ sx' = [sx EXCEPT !.file = n, !.file_size = Len(SrcFiles[n]),
                                        !.name = BaseName(sx.path), !.sanitized = v.out,
                                        !.fpos = 0, !.flen = Len(SrcFiles[n])]
                    /\ spc' = "magic"
                    /\ UNCHANGED <<wire, closed, slog>>
          ELSE IF n \notin SrcDirs \/ ~v.ok \/ ~cnt.ok
               THEN SenderExit /\ sx' = sx
               ELSE /\ sx' = [sx EXCEPT !.total_files = cnt.files, !.total_size = cnt.size,
                                        !.name = BaseName(sx.path), !.sanitized = v.out]
                    /\ spc' = "magic"
                    /\ UNCHANGED <<wire, closed, slog>>
    /\ UNCHANGED <<evars, mode, frame, rvars>>

MagicOf(op) ==
    CASE op = "file" -> FILE_MAGIC
      [] op = "dir" -> DIR_MAGIC
      [] op = "file_target" -> TARGET_FILE_MAGIC
      [] op = "dir_target" -> TARGET_DIR_MAGIC

\* uint32_t magic = htonl(...); send_all(s, &magic, MAGIC_SIZE)
SendMagic ==
    /\ spc = "magic"
    /\ Emit("magic", ToMem(HostLE, htonl(HostLE, MagicOf(sx.op))))
    /\ spc' = "hdr"
    /\ UNCHANGED <<evars, mode, frame, closed, sx, rvars>>

\* a sender that puts the two-field file header in front of every frame
HeaderBytes_file_layout ==
    WireU64(HostLE, sx.file_size) \o WireU64(HostLE, Len(sx.name))

\* the header struct, every field through htonll, sent as it lies in memory
HeaderBytes ==
    CASE sx.op = "file" ->
           WireU64(HostLE, sx.file_size) \o WireU64(HostLE, Len(sx.name))
      [] sx.op = "file_target" ->
           WireU64(HostLE, sx.file_size) \o WireU64(HostLE, Len(sx.name))
           \o WireU64(HostLE, Len(sx.sanitized))
      [] sx.op = "dir" ->
           WireU64(HostLE, sx.total_files) \o WireU64(HostLE, sx.total_size)
           \o WireU64(HostLE, Len(sx.name))
      [] sx.op = "dir_target" ->
           WireU64(HostLE, sx.total_files) \o WireU64(HostLE, sx.total_size)
           \o WireU64(HostLE, Len(sx.name)) \o WireU64(HostLE, Len(sx.sanitized))

SendHeader ==
    /\ spc = "hdr"
    /\ Emit("header", HeaderBytes)
    /\ spc' = "name"
    /\ UNCHANGED <<evars, mode, frame, closed, sx, rvars>>

\* what follows the names: the content loop of a file, the walk of a directory
\* (send_directory_recursive(s, dirpath, "") opens dirpath)
StartPayload ==
    IF IsFileOp THEN spc' = "body" /\ sx' = sx
    ELSE /\ spc' = "walk"
         /\ sx' = [sx EXCEPT !.stack = << [cur |-> <<>>, left |-> Children(Norm(sx.path))] >>]

\* send_all(s, filename, filename_len) / send_all(s, base_name, base_name_len)
SendName ==
    /\ spc = "name"
    /\ Emit("name", sx.name)
    /\ IF HasTargetOp /\ Len(sx.sanitized) > 0
       THEN spc' = "targ" /\ sx' = sx
       ELSE StartPayload
    /\ UNCHANGED <<evars, mode, frame, closed, rvars>>

\* if (target_dir_len > 0) send_all(s, sanitized_target, target_dir_len)
SendTarget ==
    /\ spc = "targ"
    /\ Emit("target", sx.sanitized)
    /\ StartPayload
    /\ UNCHANGED <<evars, mode, frame, closed, rvars>>

\* one turn of the content loop: fread returned bytes_read > 0, send_all sends them
\* then the poll of signals_should_shutdown: 1 prints the prompt, 2 closes the file
\* and calls exit(EXIT_FAILURE)
SendChunk ==
    /\ spc \in {"body", "e_body"}
    /\ sx.fpos < sx.flen
    /\ \E c \in ChunkSizes :
          LET bytes_read == Min(c, sx.flen - sx.fpos) IN
          /\ Emit("content", SubSeq(SrcFiles[sx.file], sx.fpos + 1, sx.fpos + bytes_read))
          /\ sx' = [sx EXCEPT !.fpos = @ + bytes_read]
    /\ LET shutdown == signals_should_shutdown(ssig) IN
          /\ sprompts' = IF shutdown = 1 THEN sprompts + 1 ELSE sprompts
          /\ IF shutdown = 2
             THEN spc' = "aborted" /\ closed' = TRUE
             ELSE spc' = spc /\ closed' = closed
    /\ UNCHANGED <<srv, call, avars, sigs, rprompts, conn, mode, frame, rvars>>

\* fread returns 0: the loop ends, fclose; a single-file send returns and the client
\* closes the socket, an entry returns to the walk
SendEof ==
    /\ spc \in {"body", "e_body"}
    /\ sx.fpos >= sx.flen
    /\ IF spc = "body" THEN spc' = "done" /\ closed' = TRUE
       ELSE spc' = "walk" /\ closed' = closed
    /\ UNCHANGED <<evars, mode, frame, wire, slog, sx, rvars>>

\* send_directory_recursive: readdir returns an entry, in any order
Readdir ==
    /\ spc = "walk"
    /\ LET top == sx.stack[Len(sx.stack)] IN
       \E name \in top.left :
          LET relative_path == IF top.cur = <<>> THEN name
                               ELSE top.cur \o <<SLASH>> \o name
              n == Norm(JoinPath(sx.path, relative_path))
              rest == [sx.stack EXCEPT ![Len(sx.stack)].left = @ \ {name}]
          IN IF n \in SrcDirs
             THEN /\ sx' = [sx EXCEPT !.stack = Append(rest, [cur |-> relative_path,
                                                             left |-> Children(n)])]
                  /\ spc' = "walk"
             ELSE IF n \in DOMAIN SrcFiles
             THEN /\ sx' = [sx EXCEPT !.stack = rest, !.rel = relative_path, !.file = n,
                                      !.file_size = Len(SrcFiles[n]), !.fpos = 0,
                                      !.flen = Len(SrcFiles[n])]
                  /\ spc' = "e_hdr"
             ELSE sx' = [sx EXCEPT !.stack = rest] /\ spc' = "walk"
    /\ UNCHANGED <<evars, mode, frame, wire, closed, slog, rvars>>

\* readdir returns NULL: closedir; the outermost call returns to its caller, which
\* sends the end marker (DIR) or returns (TDIR)
Closedir ==
    /\ spc = "walk"
    /\ sx.stack[Len(sx.stack)].left = {}
    /\ sx' = [sx EXCEPT !.stack = SubSeq(@, 1, Len(@) - 1)]
    /\ IF Len(sx.stack) > 1 THEN spc' = "walk" /\ closed' = closed
       ELSE IF sx.op = "dir" THEN spc' = "end_marker" /\ closed' = closed
       ELSE spc' = "done" /\ closed' = TRUE
    /\ UNCHANGED <<evars, mode, frame, wire, slog, rvars>>

\* send_single_file_in_dir: the entry's header
SendEntryHeader ==
    /\ spc = "e_hdr"
    /\ Emit("entry_header", WireU64(HostLE, sx.file_size) \o WireU64(HostLE, Len(sx.rel)))
    /\ spc' = "e_name"
    /\ UNCHANGED <<evars, mode, frame, closed, sx, rvars>>

\* send_single_file_in_dir: the entry's relative path
SendEntryPath ==
    /\ spc = "e_name"
    /\ Emit("path", sx.rel)
    /\ spc' = "e_body"
    /\ UNCHANGED <<evars, mode, frame, closed, sx, rvars>>

\* send_directory_protocol: the end marker, then return; the client closes the socket
SendEndMarker ==
    /\ spc = "end_marker"
    /\ Emit("end_marker", WireU64(HostLE, 0) \o WireU64(HostLE, 0))
    /\ spc' = "done" /\ closed' = TRUE
    /\ UNCHANGED <<evars, mode, frame, sx, rvars>>

\* send() fails once the receiver has closed the connection: exit(EXIT_FAILURE)
SendFails ==
    /\ spc \in {"magic", "hdr", "name", "targ", "body", "e_hdr", "e_name", "e_body",
                "end_marker"}
    /\ spc \in {"body", "e_body"} => sx.fpos < sx.flen
    /\ conn = "taken" /\ rpc \in {"idle", "accept", "exited", "aborted"}
    /\ SenderExit
    /\ UNCHANGED <<evars, mode, frame, sx, rvars>>

\* ------------------------------------------------------------ the server loop and the environment
\* a client's connect() reaches the listening socket; the sending client connects
\* before it sends
Connect ==
    /\ conn = "none"
    /\ mode = "sender" => spc = "start"
    /\ conn' = "waiting"
    /\ UNCHANGED <<srv, call, avars, sigs, rprompts, sprompts, mode, frame, wire, closed, rvars, svars>>

\* the top of the server's while (1), for the first time ("loop") or after a
\* client was served ("idle"): the poll of signals_should_shutdown, then the call
\* of accept
ServerPoll ==
    /\ rpc \in {"loop", "idle"}
    /\ rpc' = IF signals_should_shutdown(rsig) = 2 THEN "exited" ELSE "accept"
    /\ UNCHANGED <<evars, svars, rlog, mode, frame, wire, closed, rpos, rneed, rbuf, rx, ttype,
                   handler, hstart, rret, rdirs, rfiles, fsops>>

\* SIGINT reaches the receiving process: signal_handler increments sigint_count;
\* a blocked accept or recv is restarted (SA_RESTART)
SigintReceiver ==
    /\ rsig < MaxSig
    /\ rpc \notin {"exited", "aborted"}
    /\ rsig' = rsig + 1
    /\ UNCHANGED <<srv, call, avars, ssig, rprompts, sprompts, conn, mode, frame, wire, closed, rvars, svars>>

\* SIGINT reaches the sending process
SigintSender ==
    /\ ssig < MaxSig
    /\ spc \notin {"none", "done", "failed", "aborted"}
    /\ ssig' = ssig + 1
    /\ UNCHANGED <<srv, call, avars, rsig, rprompts, sprompts, conn, mode, frame, wire, closed, rvars, svars>>

\* another process truncates the source file while the sender has it open
SrcShrinks ==
    /\ spc \in {"magic", "hdr", "name", "targ", "body", "e_hdr", "e_name", "e_body"}
    /\ sx.flen > 0
    /\ sx' = [sx EXCEPT !.flen = @ - 1]
    /\ UNCHANGED <<evars, mode, frame, wire, closed, rvars, spc, slog>>

\* send_single_file_in_dir: fopen or stat of the entry fails (the file may not
\* be read, or was removed after readdir returned it): exit(EXIT_FAILURE)
EntryOpenFails ==
    /\ spc = "e_hdr"
    /\ sx' = [sx EXCEPT !.file = <<>>]
    /\ SenderExit
    /\ UNCHANGED <<evars, mode, frame, rvars>>

\* ------------------------------------------------------------ calls on an AdaptiveState
\* the clock moves on by a second
Tick ==
    /\ now < MaxTime
    /\ now' = now + 1
    /\ UNCHANGED <<srv, call, ad, au, sigs, rprompts, sprompts, conn, mode, frame, wire, closed, rvars,
                   svars>>

Called(fn, bytes, elapsed, got, tier, run, settled) ==
    [calls |-> au.calls + 1, fn |-> fn, bytes |-> bytes, elapsed |-> elapsed,
     got |-> got, tier |-> tier, run |-> run, settled |-> settled]

AdaptiveUpdate ==
    /\ au.calls < MaxCalls
    /\ \E bytes \in UpdateBytes, elapsed \in UpdateElapsed :
          /\ ad' = adaptive_update(ad, bytes, elapsed, now)
          /\ IF elapsed <= 0
             THEN au' = Called("adaptive_update", bytes, elapsed, au.got, au.tier, au.run,
                               au.settled)
             ELSE LET tier == TierOf(bytes \div elapsed)
                      run == IF au.run > 0 /\ au.tier = tier
                             THEN Min(au.run + 1, SPEED_SAMPLES) ELSE 1
                      adjusted == now - ad.last_adjustment_time >= ADJUSTMENT_INTERVAL
                      settled == \/ run >= SPEED_SAMPLES /\ adjusted
                                 \/ au.settled /\ au.tier = tier
                  IN au' = Called("adaptive_update", bytes, elapsed, au.got, tier, run,
                                  settled)
    /\ UNCHANGED <<srv, call, now, sigs, rprompts, sprompts, conn, mode, frame, wire, closed, rvars, svars>>

AdaptiveGetChunkSize ==
    /\ au.calls < MaxCalls
    /\ ad' = [ad EXCEPT !.current_chunk_size = adaptive_get_chunk_size(ad)]
    /\ au' = Called("adaptive_get_chunk_size", 0, 0, adaptive_get_chunk_size(ad), au.tier,
                    au.run, au.settled)
    /\ UNCHANGED <<srv, call, now, sigs, rprompts, sprompts, conn, mode, frame, wire, closed, rvars, svars>>

AdaptiveReset ==
    /\ au.calls < MaxCalls
    /\ ad' = adaptive_reset(ad, now)
    /\ au' = Called("adaptive_reset", 0, 0, au.got, 0, 0, FALSE)
    /\ UNCHANGED <<srv, call, now, sigs, rprompts, sprompts, conn, mode, frame, wire, closed, rvars, svars>>

Init == InitPeer \/ InitSender
Next ==
    \/ Connect \/ ServerPoll
    \/ Accept \/ SockRecv \/ RecvAllClosed \/ PeerClose \/ DetectTransferType
    \/ FileHeader \/ FileName \/ Chunk
    \/ TargHeader \/ TargName \/ TargTarget \/ TargBodyRecv \/ TargBodyClosed
    \/ DirHeader \/ DirBase \/ TDirHeader \/ TDirBase \/ TDirTarget
    \/ EntryHeader \/ EntryName
    \/ CloseClient
    \/ SenderStart \/ SendMagic \/ SendHeader \/ SendName \/ SendTarget \/ SendChunk
    \/ SendEof \/ Readdir \/ Closedir \/ SendEntryHeader \/ SendEntryPath
    \/ SendEndMarker \/ SendFails
Spec == Init /\ [][Next]_vars

\* the calls a transfer makes on its AdaptiveState, in any order and at any pace
InitAdaptive ==
    /\ mode = "adaptive"
    /\ frame = NoFrame /\ wire = <<>> /\ closed = FALSE
    /\ spc = "none" /\ sx = sx0 /\ slog = <<>>
    /\ InitReceiver /\ rdirs = {}
    /\ InitQuiet
NextAdaptive == Tick \/ AdaptiveUpdate \/ AdaptiveGetChunkSize \/ AdaptiveReset
SpecAdaptive == InitAdaptive /\ [][NextAdaptive]_vars

\* the transfers while the source changes under the sender: another process
\* truncates the file being sent, or an entry of the directory cannot be opened
NextSource == Next \/ SrcShrinks \/ EntryOpenFails
SpecSource == Init /\ [][NextSource]_vars

\* the single-file transfers between the NETTF sender and the server, with
\* SIGINTs reaching either process at any moment: r/a as FILE, r/a as TARG into t
\* and into a (where a stale file may lie), and a path that does not exist. The
\* server process and a started sender keep running (weak fairness on their
\* steps); when a client connects is up to the client.
SignalInputs ==
    {[sx0 EXCEPT !.op = "file", !.path = pth] : pth \in {<<cR, SLASH, cA>>, <<cT>>}}
    \cup {[sx0 EXCEPT !.op = "file_target", !.path = <<cR, SLASH, cA>>, !.target = Str(t)] :
             t \in {<<cT>>, <<cA>>}}
InitSignals ==
    /\ mode = "sender"
    /\ frame = NoFrame /\ wire = <<>> /\ closed = FALSE
    /\ spc = "start" /\ sx \in SignalInputs /\ slog = <<>>
    /\ InitReceiver
    /\ InitQuiet
ReceiverStep ==
    \/ ServerPoll \/ Accept \/ SockRecv \/ RecvAllClosed \/ DetectTransferType
    \/ FileHeader \/ FileName \/ Chunk
    \/ TargHeader \/ TargName \/ TargTarget \/ TargBodyRecv
    \/ CloseClient
SenderStep ==
    \/ SenderStart \/ SendMagic \/ SendHeader \/ SendName \/ SendTarget \/ SendChunk
    \/ SendEof \/ SendFails
NextSignals == ReceiverStep \/ SenderStep \/ Connect \/ SigintReceiver \/ SigintSender
SpecSignals ==
    InitSignals /\ [][NextSignals]_vars /\ WF_vars(ReceiverStep) /\ WF_vars(SenderStep)

\* ------------------------------------------------------------ library calls
\* SOCKET_ERROR, the value send() and recv() return on failure
SOCKET_ERROR == 0 - 1

\* the longest buffer handed to send_all / recv_all, and the longest string
\* handed to validate_target_directory
MaxLen == 5
MaxStr == 4

send_all_zero_retried(c, n) ==
    IF n = SOCKET_ERROR
    THEN [c EXCEPT !.results = Append(@, n), !.ret = <<0 - 1>>]
    ELSE [c EXCEPT !.results = Append(@, n), !.total = @ + n]

\* one pass of the loop body of send_all (recv_all has the same body) when
\* the underlying send() / recv() returns n
send_all(c, n) ==
    IF n = SOCKET_ERROR
    THEN [c EXCEPT !.results = Append(@, n), !.ret = <<0 - 1>>]
    ELSE IF n = 0
    THEN [c EXCEPT !.results = Append(@, n), !.ret = <<0 - 1>>]
    ELSE [c EXCEPT !.results = Append(@, n), !.total = @ + n]

\* platform.c's htonll, the one the Windows build links: each 32-bit half is
\* converted by htonl and put back where it was, (upper << 32) | lower
platform_htonll(le, v) ==
    IF le THEN htonl(le, SubSeq(v, 1, 4)) \o htonl(le, SubSeq(v, 5, 8)) ELSE v
platform_ntohll(le, v) ==
    IF le THEN ntohl(le, SubSeq(v, 1, 4)) \o ntohl(le, SubSeq(v, 5, 8)) ELSE v

RECURSIVE StringsOver(_, _)
StringsOver(A, n) ==
    IF n = 0 THEN {<<>>}
    ELSE LET S == StringsOver(A, n - 1) IN S \cup {Append(s, a) : s \in S, a \in A}

\* the calls followed: send_all / recv_all on a buffer of len bytes;
\* validate_target_directory on a string over 'a', '/', '.' with an output
\* buffer of buffer_size >= 2 bytes; htonll / ntohll and htonl / ntohl on a
\* value, given by its bytes from the most significant one, in the build that
\* takes htonll from protocol.c (posix) and in the one that takes it from
\* platform.c (win32)
CallInputs ==
    {[fn |-> f, len |-> l, total |-> 0, results |-> <<>>, ret |-> <<>>] :
        f \in {"send_all", "recv_all"}, l \in 0..MaxLen}
    \cup {[fn |-> "validate_target_directory", target_dir |-> Str(t), buffer_size |-> b,
           ret |-> <<>>, sanitized_dir |-> <<>>] :
             t \in StringsOver({cA, SLASH, DOT}, MaxStr), b \in {3, 4, PATH_BUF}}
    \cup {[fn |-> "htonll", build |-> b, x |-> v, ret |-> <<>>, mem |-> <<>>, back |-> <<>>] :
             b \in {"posix", "win32"},
             v \in {<<0, 0, 0, 0>> \o w : w \in StringsOver({0, 1}, 4) \ StringsOver({0, 1}, 3)}
                   \cup {<<1, 2, 3, 4, 5, 6, 7, 8>>}}
    \cup {[fn |-> "htonl", build |-> b, x |-> v, ret |-> <<>>, mem |-> <<>>, back |-> <<>>] :
             b \in {"posix", "win32"}, v \in {<<70, 73, 76, 69>>, <<0, 0, 0, 1>>}}
    \cup {[fn |-> "malloc", field |-> f, length |-> v, size |-> <<>>] :
             f \in {"filename_len", "base_path_len", "target_dir_len"},
             v \in {U64(n) : n \in 0..MaxLen}
                   \cup {<<0, 0, 0, 0, 255, 255, 255, 255>>,
                         <<255, 255, 255, 255, 255, 255, 255, 254>>,
                         <<255, 255, 255, 255, 255, 255, 255, 255>>}}

InitCalls ==
    /\ mode = "calls"
    /\ frame = NoFrame /\ wire = <<>> /\ closed = FALSE
    /\ spc = "none" /\ sx = sx0 /\ slog = <<>>
    /\ InitReceiver /\ rdirs = {}
    /\ ad = adaptive_init(0, 0) /\ now = 0 /\ au = au0
    /\ rsig = 0 /\ ssig = 0 /\ rprompts = 0 /\ sprompts = 0
    /\ conn = "none"
    /\ call \in CallInputs
    /\ srv = srv0

\* send_all / recv_all: the loop test, then either a pass of the loop with
\* whatever the underlying call returns (an error, 0, or some of the bytes
\* asked for), or return 0
SendRecvAll ==
    /\ call.fn \in {"send_all", "recv_all"} /\ call.ret = <<>>
    /\ IF call.total < call.len
       THEN \E n \in {SOCKET_ERROR} \cup 0..(call.len - call.total) :
               call' = send_all(call, n)
       ELSE call' = [call EXCEPT !.ret = <<0>>]
    /\ UNCHANGED <<mode, frame, wire, closed, rvars, svars, avars, sigs, rprompts,
                   sprompts, conn, srv>>

ValidateTargetDirectory ==
    /\ call.fn = "validate_target_directory" /\ call.ret = <<>>
    /\ LET v == validate_target_directory(call.target_dir, call.buffer_size) IN
       call' = [call EXCEPT !.ret = IF v.ok THEN <<0>> ELSE <<0 - 1>>,
                            !.sanitized_dir = v.out]
    /\ UNCHANGED <<mode, frame, wire, closed, rvars, svars, avars, sigs, rprompts,
                   sprompts, conn, srv>>

\* x is converted to network order and stored (mem: the bytes of the stored
\* value in address order), then loaded and converted back
ByteOrder ==
    /\ call.fn \in {"htonll", "htonl"} /\ call.ret = <<>>
    /\ LET net == IF call.fn = "htonl" THEN htonl(HostLE, call.x)
                  ELSE IF call.build = "win32" THEN platform_htonll(HostLE, call.x)
                  ELSE htonll(HostLE, call.x)
           mem == ToMem(HostLE, net)
           got == FromMem(HostLE, mem)
       IN call' = [call EXCEPT
                      !.ret = <<net>>, !.mem = mem,
                      !.back = IF call.fn = "htonl" THEN ntohl(HostLE, got)
                               ELSE IF call.build = "win32"
                               THEN platform_ntohll(HostLE, got)
                               ELSE ntohll(HostLE, got)]
    /\ UNCHANGED <<mode, frame, wire, closed, rvars, svars, avars, sigs, rprompts,
                   sprompts, conn, srv>>

\* v + 1 in uint64_t arithmetic: the carry runs up from the last byte and is
\* dropped past the first
RECURSIVE PlusOne(_)
PlusOne(v) ==
    IF v = <<>> THEN <<>>
    ELSE LET n == Len(v) IN
         IF v[n] = 255 THEN Append(PlusOne(SubSeq(v, 1, n - 1)), 0)
         ELSE [v EXCEPT ![n] = @ + 1]

\* a < b for two values of the same width
RECURSIVE Less64(_, _)
Less64(a, b) ==
    /\ a /= <<>>
    /\ \/ Head(a) < Head(b)
       \/ Head(a) = Head(b) /\ Less64(Tail(a), Tail(b))

\* char *buf = malloc(len + 1) for a length field just converted from the
\* header; the target directory's buffer is allocated only for a length above 0
MallocLen ==
    /\ call.fn = "malloc" /\ call.size = <<>>
    /\ call.field = "target_dir_len" => call.length /= U64(0)
    /\ call' = [call EXCEPT !.size = <<PlusOne(call.length)>>]
    /\ UNCHANGED <<mode, frame, wire, closed, rvars, svars, avars, sigs, rprompts,
                   sprompts, conn, srv>>

NextCalls == SendRecvAll \/ ValidateTargetDirectory \/ ByteOrder \/ MallocLen
SpecCalls == InitCalls /\ [][NextCalls]_vars

\* ------------------------------------------------------------ the server and further clients
\* how many connections the server is followed through
MaxConn == 2

\* a further client connects while the server is busy with the one it accepted,
\* or after: it waits in the listen queue (listen(server_socket, 1))
ConnectNext ==
    /\ mode = "peer" /\ conn = "taken"
    /\ rpc \notin {"exited", "aborted"}
    /\ srv.backlog = 0 /\ srv.accepts < MaxConn
    /\ srv' = [srv EXCEPT !.backlog = 1]
    /\ UNCHANGED <<avars, sigs, rprompts, sprompts, conn, call, mode, frame, wire, closed,
                   rvars, svars>>

\* accept() returns the next client's socket: a client that closes at once,
\* having sent nothing or four bytes that are no magic. transfer_type and the
\* handler's variables are those of the new pass of the loop.
AcceptNext ==
    /\ rpc = "accept"
    /\ conn = "taken" /\ srv.backlog > 0
    /\ srv' = [srv EXCEPT !.open = @ + 1, !.accepts = @ + 1, !.closes = 0,
                          !.backlog = @ - 1]
    /\ \E stream \in {<<>>, <<88, 88, 88, 88>>} : wire' = stream
    /\ closed' = TRUE /\ rpos' = 0
    /\ ttype' = <<>> /\ handler' = "none" /\ hstart' = 0 /\ rret' = <<>> /\ rx' = rx0
    /\ Await("magic", MAGIC_SIZE)
    /\ UNCHANGED <<avars, sigs, rprompts, sprompts, conn, call, mode, frame, svars, rlog,
                   rdirs, rfiles, fsops>>

NextServer ==
    \/ Connect \/ ServerPoll \/ ConnectNext \/ AcceptNext
    \/ Accept \/ SockRecv \/ RecvAllClosed \/ PeerClose \/ DetectTransferType
    \/ FileHeader \/ FileName \/ Chunk
    \/ TargHeader \/ TargName \/ TargTarget \/ TargBodyRecv \/ TargBodyClosed
    \/ DirHeader \/ DirBase \/ TDirHeader \/ TDirBase \/ TDirTarget
    \/ EntryHeader \/ EntryName
    \/ CloseClient
SpecServer == InitPeer /\ [][NextServer]_vars

\* ------------------------------------------------------------ the chunk loops and their AdaptiveState
\* The content loops of the transfer functions with the calls they make on
\* their AdaptiveState and the clock readings (time(NULL), whole seconds) they
\* pass: a single file, or the entry files of a directory one after the other.
\* files: the sizes of the files still to go, the current one first.
FileSizes == {0, 20000, 70000}
ChunkerInputs ==
    {[fn |-> f, files |-> <<n>>] :
        f \in {"send_file_protocol", "recv_file_protocol",
               "recv_file_with_target_protocol"}, n \in FileSizes}
    \cup {[fn |-> f, files |-> <<n, m>>] :
             f \in {"send_single_file_in_dir", "receive_single_file_in_dir"},
             n \in FileSizes, m \in FileSizes}
InitChunker ==
    /\ mode = "chunker"
    /\ frame = NoFrame /\ wire = <<>> /\ closed = FALSE
    /\ spc = "none" /\ sx = sx0 /\ slog = <<>>
    /\ InitReceiver /\ rdirs = {}
    /\ ad = adaptive_init(0, 0) /\ now = 0 /\ au = au0
    /\ rsig = 0 /\ ssig = 0 /\ rprompts = 0 /\ sprompts = 0
    /\ conn = "none" /\ srv = srv0
    /\ \E c \in ChunkerInputs :
          call = [fn |-> c.fn, files |-> c.files, pc |-> "init", left |-> 0,
                  chunk_size |-> 0, chunk_start |-> 0, bytes |-> 0, elapsed |-> 0,
                  entry |-> 0, ended |-> <<>>, began |-> <<>>]

\* the function is entered for the next file: adaptive_init(&adaptive, file_size)
ChunkerInit ==
    /\ call.fn /= "none" /\ call.pc = "init" /\ call.files /= <<>>
    /\ ad' = adaptive_init(Head(call.files), now)
    /\ call' = [call EXCEPT !.pc = "start", !.left = Head(call.files),
                            !.entry = @ + 1, !.began = <<ad'>>]
    /\ UNCHANGED <<mode, frame, wire, closed, rvars, svars, now, au, sigs, rprompts,
                   sprompts, conn, srv>>

\* header and name are through: chunk_size = adaptive_get_chunk_size(&adaptive),
\* chunk_start = time(NULL)
ChunkerLoopStart ==
    /\ call.fn /= "none" /\ call.pc = "start"
    /\ ad' = [ad EXCEPT !.current_chunk_size = adaptive_get_chunk_size(ad)]
    /\ call' = [call EXCEPT !.pc = "loop", !.chunk_size = adaptive_get_chunk_size(ad),
                            !.chunk_start = now]
    /\ UNCHANGED <<mode, frame, wire, closed, rvars, svars, now, au, sigs, rprompts,
                   sprompts, conn, srv>>

\* the loop test; one chunk is read or received (recv_file_with_target_protocol
\* takes what one recv() gives); chunk_end = time(NULL), chunk_elapsed =
\* difftime(chunk_end, chunk_start), chunk_start = chunk_end. With nothing
\* left the function returns with its AdaptiveState as it is.
ChunkTimed ==
    /\ call.fn /= "none" /\ call.pc = "loop"
    /\ IF call.left = 0
       THEN call' = [call EXCEPT !.pc = "init", !.files = Tail(@), !.ended = <<ad>>]
       ELSE \E n \in {ToReceive(call.left, call.chunk_size)}
                     \cup (IF call.fn = "recv_file_with_target_protocol"
                           THEN {(ToReceive(call.left, call.chunk_size) + 1) \div 2}
                           ELSE {}) :
               call' = [call EXCEPT !.pc = "update", !.bytes = n,
                                    !.elapsed = now - call.chunk_start,
                                    !.chunk_start = now]
    /\ UNCHANGED <<mode, frame, wire, closed, rvars, svars, ad, now, au, sigs, rprompts,
                   sprompts, conn, srv>>

\* adaptive_update(&adaptive, bytes, chunk_elapsed), then
\* chunk_size = adaptive_get_chunk_size(&adaptive)
ChunkUpdate ==
    /\ call.fn /= "none" /\ call.pc = "update"
    /\ LET s1 == adaptive_update(ad, call.bytes, call.elapsed, now) IN
       /\ ad' = [s1 EXCEPT !.current_chunk_size = adaptive_get_chunk_size(s1)]
       /\ call' = [call EXCEPT !.pc = "loop", !.left = @ - call.bytes,
                               !.chunk_size = adaptive_get_chunk_size(s1)]
    /\ UNCHANGED <<mode, frame, wire, closed, rvars, svars, now, au, sigs, rprompts,
                   sprompts, conn, srv>>

NextChunker == Tick \/ ChunkerInit \/ ChunkerLoopStart \/ ChunkTimed \/ ChunkUpdate
SpecChunker == InitChunker /\ [][NextChunker]_vars

\* ------------------------------------------------------------ properties
\* the first four bytes of the stream, once they are there
Lead == Take(wire, 4)
IsMagic(m) == m \in { <<70, 73, 76, 69>>, <<68, 73, 82, 32>>, <<84, 65, 82, 71>>,
                      <<84, 68, 73, 82>> }
SelectorOf(m) ==
    CASE m = <<70, 73, 76, 69>> -> 0
      [] m = <<68, 73, 82, 32>> -> 1
      [] m = <<84, 65, 82, 71>> -> 2
      [] m = <<84, 68, 73, 82>> -> 3
      [] OTHER -> -1
HandlerFor(sel) ==
    CASE sel = 0 -> "recv_file_protocol"
      [] sel = 1 -> "recv_directory_protocol"
      [] sel = 2 -> "recv_file_with_target_protocol"
      [] sel = 3 -> "recv_directory_with_target_protocol"
      [] OTHER -> "none"

\* C5: detect_transfer_type consumes exactly the first 4 bytes of the stream and
\* maps them, read big-endian, to the selector (FILE 0, DIR 1, TARG 2, TDIR 3);
\* the server invokes exactly the handler of that selector, and the handler's
\* first read (its header) starts at byte 5.
MagicDispatch ==
    /\ rpc = "magic" => rpos = Len(rbuf) /\ rpos <= 4 /\ rbuf = Take(wire, rpos)
                        /\ handler = "none" /\ ttype = <<>>
    /\ handler /= "none" => ttype \in {<<0>>, <<1>>, <<2>>, <<3>>}
    /\ rlog /= <<>> =>
          /\ rlog[1] = <<"magic", 4>>
          /\ ttype = <<SelectorOf(Lead)>>
          /\ handler = HandlerFor(SelectorOf(Lead))
          /\ hstart = 4
          /\ rpc \in {"f_hdr", "d_hdr", "t_hdr", "td_hdr"} =>
                rpos = 4 + Len(rbuf) /\ rbuf = SubSeq(wire, 5, rpos)
          /\ Len(rlog) >= 2 => rlog[2][1] = "header"

\* a TDIR magic was dispatched and the whole 32-byte header read from byte 5 on
MagicDispatchWitness ==
    /\ Lead = <<84, 68, 73, 82>>
    /\ ttype = <<3>> /\ handler = "recv_directory_with_target_protocol"
    /\ rpc = "td_hdr" /\ Len(rbuf) = 32 /\ rpos = 36

\* C6: when the 4 leading bytes are none of the four magics, detect_transfer_type
\* returns -1, no handler is invoked and the receiver makes no mkdir and no fopen:
\* its filesystem stays as it was, and nothing past the 4 bytes is read.
UnknownMagicNoEffect ==
    (Len(wire) >= 4 /\ ~IsMagic(Lead) /\ rpos >= 4) =>
        /\ rpos = 4
        /\ rpc \in {"magic", "close", "idle", "accept"}
        /\ rpc /= "magic" => ttype = <<-1>>
        /\ handler = "none" /\ rret = <<>>
        /\ fsops = <<>>
        /\ [dirs |-> rdirs, files |-> rfiles] \in InitFs

\* four unknown bytes were read, the connection was closed, nothing else happened
UnknownMagicWitness ==
    /\ Len(wire) > 4 /\ ~IsMagic(Lead)
    /\ rpos = 4 /\ ttype = <<-1>> /\ rpc = "idle" /\ fsops = <<>>

\* C1: every path the receiver hands to mkdir or fopen is relative, does not
\* begin with '/' and contains no "..", whatever frame the peer sends; nothing is
\* created or written outside the receiver's working directory.
PathsConfined ==
    /\ \A i \in 1..Len(fsops) :
          LET pth == fsops[i].path IN
          /\ pth /= <<>> => pth[1] /= SLASH
          /\ ~HasDotDot(pth)
    /\ \A n \in rdirs \cup DOMAIN rfiles : ~Outside(n)

BadTarget(t) == t /= <<>> /\ (t[1] = SLASH \/ HasDotDot(t))

\* C2: a TARG or TDIR frame whose target_dir begins with '/' or contains ".." is
\* rejected: the handler returns an error, and up to then the receiver has called
\* neither mkdir nor fopen.
BadTargetRejected ==
    (handler \in {"recv_file_with_target_protocol", "recv_directory_with_target_protocol"}
     /\ BadTarget(CStr(rx.target_dir))) =>
        /\ fsops = <<>>
        /\ rret \in {<<>>, <<-1>>}
        /\ [dirs |-> rdirs, files |-> rfiles] \in InitFs

\* the stream ended inside the content of the file the receiver has open or had
\* open last: fewer bytes than its header announced were ever sent
CutInContent ==
    /\ closed
    /\ rx.full_path /= <<>>
    /\ rx.body_start >= hstart /\ Len(wire) < rx.body_start + rx.file_size

\* C7: when the peer closes inside a file's content, in any frame kind, the
\* handler never returns success and returns -1 once it returns; the output file
\* exists and holds exactly the content bytes written before the close, a proper
\* prefix of the content.
CutContentIsError ==
    CutInContent =>
        /\ rret /= <<0>>
        /\ rpc \in {"close", "idle"} => rret = <<-1>>
        /\ Norm(rx.full_path) \in DOMAIN rfiles
        /\ rx.total_received < rx.file_size
        /\ rx.body_start + rx.total_received <= Len(wire)
        /\ rfiles[Norm(rx.full_path)] =
              SubSeq(wire, rx.body_start + 1, rx.body_start + rx.total_received)

\* a TARG frame cut after one content byte: -1 returned, one byte on disk
CutContentWitness ==
    /\ CutInContent
    /\ handler = "recv_file_with_target_protocol"
    /\ rret = <<-1>> /\ rpc = "idle"
    /\ rx.total_received = 1 /\ rx.file_size = MaxBody
    /\ Len(rfiles[Norm(rx.full_path)]) = 1

\* the bytes the first n of the entries es take on the stream
RECURSIVE EntriesLen(_, _)
EntriesLen(es, n) ==
    IF n = 0 \/ es = <<>> THEN 0
    ELSE 16 + Len(Head(es).name) + Head(es).size + EntriesLen(Tail(es), n - 1)

IsZeroZero(e) == e.size = 0 /\ e.name = <<>>
\* what follows the base name in a peer's DIR frame: its entries, then the
\* terminating zero/zero header
DirItems == frame.entries \o <<Sentinel>>
FirstMarker == CHOOSE i \in 1..Len(DirItems) :
                  IsZeroZero(DirItems[i]) /\ \A j \in 1..(i - 1) : ~IsZeroZero(DirItems[j])
\* the stream offset just past the first zero/zero header
MarkerEnd == 4 + 24 + Len(frame.name) + EntriesLen(DirItems, FirstMarker)
Count(log, what) == Cardinality({i \in 1..Len(log) : log[i][1] = what})

TDirEnd(n) == 4 + 32 + Len(frame.name) + Len(frame.target) + EntriesLen(frame.entries, n)

\* C9: in a TDIR frame the receiver reads total_files entries and nothing after
\* them; it returns success exactly when entry number total_files is complete, and
\* has then read no zero/zero header.
TDirCount ==
    (mode = "peer" /\ handler = "recv_directory_with_target_protocol") =>
      IF frame.total_files > Len(frame.entries) THEN rret /= <<0>> ELSE
        /\ rpos <= TDirEnd(frame.total_files)
        /\ Count(rlog, "entry_header") + Count(rlog, "end_marker") <= frame.total_files
        /\ rret = <<0>> =>
              /\ rpos = TDirEnd(frame.total_files)
              /\ rx.files_received = frame.total_files
              /\ Count(rlog, "entry_header") = frame.total_files
              /\ Count(rlog, "end_marker") = 0
        /\ (frame.total_files > 0 /\ rx.files_received = frame.total_files) => rret = <<0>>

\* one entry announced, two sent: success after the first, the second unread
TDirCountWitness ==
    /\ mode = "peer" /\ handler = "recv_directory_with_target_protocol"
    /\ frame.total_files = 1 /\ Len(frame.entries) = 2
    /\ frame.entries[1] = Entry(MaxBody, <<cA>>)
    /\ rret = <<0>> /\ rpc = "idle"
    /\ ~closed /\ rpos = TDirEnd(1) /\ rpos < Len(wire)

\* a target the sender accepts: given, not starting with '/', without ".."
ValidTarget(t) == ~t.null /\ ~BadTarget(t.s)
TargetGiven == HasTargetOp /\ ~sx.target.null /\ sx.target.s /= <<>>
Last(q) == q[Len(q)]

\* C3: a single-file send (FILE, or TARG with a valid target) of an existing
\* regular file, over a stream that splits reads and writes in any way: once the
\* receiver's handler has returned it has returned success, the sender has not
\* failed, and the file at (target/)basename holds exactly the source's bytes,
\* whatever was there before.
FileRoundTrip ==
    (/\ mode = "sender" /\ IsFileOp
     /\ Norm(sx.path) \in DOMAIN SrcFiles
     /\ sx.op = "file_target" => ValidTarget(sx.target)
     /\ rpc \in {"close", "idle"}) =>
        LET dest == (IF TargetGiven THEN Norm(sx.target.s) ELSE <<>>)
                    \o <<Last(Norm(sx.path))>>
        IN /\ rret = <<0>>
           /\ spc /= "failed"
           /\ dest \in DOMAIN rfiles
           /\ rfiles[dest] = SrcFiles[Norm(sx.path)]
           /\ \A k \in 1..(Len(dest) - 1) : SubSeq(dest, 1, k) \in rdirs

\* r/a was sent into t, where a stale t/a lay: success, and t/a is the source
FileRoundTripWitness ==
    /\ mode = "sender" /\ sx.op = "file_target" /\ sx.target = Str(<<cT>>)
    /\ sx.path = <<cR, SLASH, cA>>
    /\ << <<cR>>, <<cA>> >> \in DOMAIN rfiles
    /\ rpc = "idle" /\ rret = <<0>> /\ spc = "done"
    /\ rfiles[<< <<cT>>, <<cA>> >>] = Body(MaxBody)

\* C4: a DIR or TDIR send of an existing directory: once the receiver's handler
\* has returned it has returned success, and under the anchor (the directory's
\* name, below the target if one is given) lie exactly the source's regular
\* files at their relative paths, with the source's bytes, inside directories
\* that exist.
TreeRoundTrip ==
    (/\ mode = "sender" /\ ~IsFileOp
     /\ Norm(sx.path) \in SrcDirs
     /\ sx.op = "dir_target" => ValidTarget(sx.target)
     /\ rpc \in {"close", "idle"}) =>
        LET src == Norm(sx.path)
            anchor == (IF TargetGiven THEN Norm(sx.target.s) ELSE <<>>) \o <<Last(src)>>
            Under(q, m) == Len(m) > Len(q) /\ SubSeq(m, 1, Len(q)) = q
            Rel(q, m) == SubSeq(m, Len(q) + 1, Len(m))
            sent == {Rel(src, m) : m \in {y \in DOMAIN SrcFiles : Under(src, y)}}
            got == {Rel(anchor, m) : m \in {y \in DOMAIN rfiles : Under(anchor, y)}}
        IN /\ rret = <<0>>
           /\ got = sent
           /\ \A q \in sent :
                 /\ rfiles[anchor \o q] = SrcFiles[src \o q]
                 /\ \A k \in 1..(Len(anchor \o q) - 1) : SubSeq(anchor \o q, 1, k) \in rdirs

\* 8 bytes, most significant first
BE8(n) == <<0, 0, 0, 0, (n \div 16777216) % 256, (n \div 65536) % 256, (n \div 256) % 256,
            n % 256>>
RECURSIVE Flat(_)
Flat(log) == IF log = <<>> THEN <<>> ELSE Head(log).bytes \o Flat(Tail(log))
TargetSent == HasTargetOp /\ sx.sanitized /= <<>>
\* the pieces after the names: content, or the entry sequence
Payload == SubSeq(slog, IF TargetSent THEN 5 ELSE 4, Len(slog))
HeaderLen == CASE sx.op = "file" -> 16 [] sx.op = "file_target" -> 24
               [] sx.op = "dir" -> 24 [] sx.op = "dir_target" -> 32
\* the 8-byte field number i of a header
Field8(b, i) == SubSeq(b, 8 * i - 7, 8 * i)

\* the magic, the header with its sizes and big-endian fields, the name, the target
FrameHeadOrder ==
    /\ Len(slog) >= 1 =>
          /\ slog[1].what = "magic"
          /\ slog[1].bytes = (CASE sx.op = "file" -> <<70, 73, 76, 69>>
                                [] sx.op = "dir" -> <<68, 73, 82, 32>>
                                [] sx.op = "file_target" -> <<84, 65, 82, 71>>
                                [] sx.op = "dir_target" -> <<84, 68, 73, 82>>)
    /\ Len(slog) >= 2 =>
          /\ slog[2].what = "header" /\ Len(slog[2].bytes) = HeaderLen
          /\ IsFileOp => Field8(slog[2].bytes, 1) = BE8(Len(SrcFiles[Norm(sx.path)]))
          /\ ~IsFileOp => /\ Field8(slog[2].bytes, 1) = BE8(sx.total_files)
                          /\ Field8(slog[2].bytes, 2) = BE8(sx.total_size)
          /\ HasTargetOp =>
                Field8(slog[2].bytes, HeaderLen \div 8) = BE8(IF TargetSent THEN Len(sx.sanitized) ELSE 0)
    /\ Len(slog) >= 3 =>
          /\ slog[3].what = "name"
          /\ Field8(slog[2].bytes, IF IsFileOp THEN 2 ELSE 3) = BE8(Len(slog[3].bytes))
    /\ (Len(slog) >= 4 /\ TargetSent) =>
          slog[4] = [what |-> "target", bytes |-> sx.sanitized]
    /\ \A i \in 1..Len(slog) :
          /\ slog[i].what \in {"magic", "header", "name"} => i <= 3
          /\ slog[i].what = "target" => i = 4 /\ TargetSent

\* content for a file; for a directory the entries, each a 16-byte header, its
\* path and its content, and after the last one end marker for DIR, none for TDIR
PayloadOrder ==
    LET P == Payload IN
    /\ IsFileOp => Len(P) <= 1 /\ (Len(P) = 1 => P[1].what = "content")
    /\ ~IsFileOp => \A i \in 1..Len(P) :
          /\ P[i].what \in {"entry_header", "path", "content", "end_marker"}
          /\ P[i].what \in {"entry_header", "end_marker"} =>
                /\ Len(P[i].bytes) = 16
                /\ i > 1 => P[i - 1].what \in {"path", "content"}
                /\ (i > 1 /\ P[i - 1].what = "path") => Field8(P[i - 2].bytes, 1) = BE8(0)
                /\ (i > 1 /\ P[i - 1].what = "content") =>
                      Field8(P[i - 3].bytes, 1) = BE8(Len(P[i - 1].bytes))
          /\ P[i].what = "path" =>
                /\ i > 1 /\ P[i - 1].what = "entry_header"
                /\ P[i].bytes /= <<>>
                /\ Field8(P[i - 1].bytes, 2) = BE8(Len(P[i].bytes))
          /\ P[i].what = "content" => i > 1 /\ P[i - 1].what = "path"
          /\ P[i].what = "end_marker" =>
                /\ sx.op = "dir" /\ i = Len(P) /\ spc \in {"done", "failed"}
                /\ P[i].bytes = BE8(0) \o BE8(0)
    /\ (sx.op = "dir" /\ spc = "done") => (P /= <<>> /\ P[Len(P)].what = "end_marker")
    /\ (sx.op = "dir_target" /\ spc = "done") =>
          (P /= <<>> => P[Len(P)].what \in {"path", "content"})

\* what the receiver has read is, field by field, what the sender wrote; only a
\* field of no bytes can be read before it is written
ReadsMatchWrites ==
    /\ Len(rlog) <= Len(slog) + 1
    /\ \A i \in 1..Len(rlog) :
          IF i > Len(slog) THEN rlog[i][2] = 0
          ELSE /\ rlog[i][1] = slog[i].what
               /\ \/ rlog[i][2] = Len(slog[i].bytes)
                  \/ /\ i = Len(rlog) /\ rlog[i][1] = "content"
                     /\ rlog[i][2] < Len(slog[i].bytes)
    /\ rret = <<0>> => Len(rlog) = Len(slog)

ChunkSizeInRange ==
    /\ 8192 <= ad.current_chunk_size /\ ad.current_chunk_size <= 2097152
    /\ 8192 <= au.got /\ au.got <= 2097152

\* slow updates brought the chunk size down to the minimum, and
\* adaptive_get_chunk_size returned it
ChunkSizeInRangeWitness ==
    /\ mode = "adaptive" /\ au.fn = "adaptive_get_chunk_size"
    /\ au.got = 8192 /\ ad.current_chunk_size = 8192 /\ ad.sample_count >= 2

\* the tier table of the specification, for the mean sum / count
TierSize(sum, count) ==
    CASE sum < 1048576 * count -> 8192
      [] sum >= 1048576 * count /\ sum < 10485760 * count -> 65536
      [] sum >= 10485760 * count /\ sum < 52428800 * count -> 262144
      [] sum >= 52428800 * count /\ sum < 104857600 * count -> 1048576
      [] OTHER -> 2097152

\* the step is a call of adaptive_update with elapsed_time > 0
IsUpdateStep ==
    au'.calls = au.calls + 1 /\ au'.fn = "adaptive_update" /\ au'.elapsed > 0

\* the populated samples once the call's speed is recorded, and their number
SamplesAfter ==
    [ad.speed_samples EXCEPT ![ad.sample_index + 1] = au'.bytes \div au'.elapsed]
CountAfter == IF ad.sample_count < 5 THEN ad.sample_count + 1 ELSE 5

\* C12: an adaptive_update with elapsed_time > 0, made when 2 seconds or more
\* have passed since last_adjustment_time, sets current_chunk_size to the tier
\* size of the mean of the populated samples (the new one included), sets
\* last_adjustment_time to now and zeroes bytes_transferred; made earlier, it
\* leaves current_chunk_size and last_adjustment_time as they were.
AdjustmentRule ==
    [][IsUpdateStep =>
         IF now - ad.last_adjustment_time >= 2
         THEN /\ ad'.current_chunk_size = TierSize(SumTo(SamplesAfter, CountAfter), CountAfter)
              /\ ad'.last_adjustment_time = now
              /\ ad'.bytes_transferred = 0
         ELSE /\ ad'.current_chunk_size = ad.current_chunk_size
              /\ ad'.last_adjustment_time = ad.last_adjustment_time]_vars

\* an update adjusted on a mean of slow and fast samples that lies in the
\* 256 KiB tier
AdjustmentRuleWitness ==
    /\ mode = "adaptive" /\ au.fn = "adaptive_update" /\ au.elapsed > 0
    /\ ad.last_adjustment_time = now /\ now >= 2 /\ ad.bytes_transferred = 0
    /\ ad.sample_count >= 2 /\ ad.current_chunk_size = 262144

\* C13: once SPEED_SAMPLES consecutive updates had speeds in one tier and an
\* adjustment was made with them recorded, current_chunk_size is that tier's
\* size, and it stays so over every further update at a speed of the tier.
SustainedRate ==
    au.settled => ad.current_chunk_size = au.tier

\* six updates at about 500 KB/s, the fifth or sixth adjusting: the minimum
SustainedRateWitness ==
    /\ mode = "adaptive" /\ au.settled /\ au.calls = MaxCalls /\ au.run >= 5
    /\ au.fn = "adaptive_update" /\ au.bytes = 512000 /\ au.elapsed = 1
    /\ ad.current_chunk_size = 8192

\* ------------------------------------------------------------ received names: properties
HasSlash(s) == \E i \in 1..Len(s) : s[i] = SLASH

\* C16: in a FILE or TARG frame a received filename that contains '/' is refused:
\* the handler returns an error, and no fopen is made and no file is created.
SlashNameRefused ==
    (/\ handler \in {"recv_file_protocol", "recv_file_with_target_protocol"}
     /\ HasSlash(CStr(rx.filename))) =>
        /\ rret \in {<<>>, <<-1>>}
        /\ \A i \in 1..Len(fsops) : fsops[i].op /= "fopen"
        /\ \E fs \in InitFs : rfiles = fs.files

BadEntryPath(p) == HasDotDot(p) \/ (p /= <<>> /\ p[1] = SLASH)

\* C17: in a DIR or TDIR frame, the step that takes in an entry's relative path
\* containing ".." or beginning with '/' fails the frame (the handler returns an
\* error) and calls neither mkdir nor fopen for the entry: no directory and no
\* file comes to exist.
BadEntryPathRejected ==
    [][(/\ rpc = "e_name" /\ rpc' /= "e_name" /\ Len(rbuf) = rneed
        /\ BadEntryPath(CStr(rbuf))) =>
           /\ rret' = <<-1>>
           /\ fsops' = fsops /\ rdirs' = rdirs /\ rfiles' = rfiles]_vars

\* ------------------------------------------------------------ the sender's filename: properties
\* the part of a path after its last '/' or '\'
LastComponent(p) ==
    LET ix == {i \in 1..Len(p) : p[i] \in {SLASH, BSLASH}} IN
    IF ix = {} THEN p
    ELSE SubSeq(p, (CHOOSE i \in ix : \A j \in ix : j <= i) + 1, Len(p))

\* C14: whatever source path a single-file sender (FILE or TARG) is given, the
\* filename bytes it puts on the wire are the path's basename, and hold neither
\* '/' nor '\'.
WireNameIsBasename ==
    (mode = "sender" /\ IsFileOp) =>
        \A i \in 1..Len(slog) :
            slog[i].what = "name" =>
                /\ slog[i].bytes = LastComponent(sx.path)
                /\ \A k \in 1..Len(slog[i].bytes) : slog[i].bytes[k] \notin {SLASH, BSLASH}

\* C15: for every file a sender transmits, single or inside a directory, when
\* its content loop ends in success the content bytes written to the stream
\* number the file_size its header declared; a source that yields fewer (it
\* shrank after stat) makes the sender fail instead.
SentMatchesDeclared ==
    [][(/\ mode = "sender" /\ spc \in {"body", "e_body"}
        /\ spc' \in {"done", "walk"}) =>
           sx.fpos = sx.file_size]_vars

\* ------------------------------------------------------------ signals: properties
\* C18: with exactly one SIGINT received, the shutdown prompt is printed once for
\* the transfer, not once per chunk, and the transfer is not aborted.
PromptOnce ==
    /\ rsig = 1 => rprompts <= 1
    /\ ssig = 1 => sprompts <= 1
    /\ rsig <= 1 => rpc /= "aborted"
    /\ ssig <= 1 => spc /= "aborted"

\* C19: a poll after a chunk that finds two or more SIGINTs aborts the transfer
\* there: the file is closed, no further chunk is sent or received, and control
\* returns to the caller with an error (the receive handler's return value; the
\* sending process is not ended).
ForcedReturnsError ==
    [][/\ (rsig >= 2 /\ rx.open /\ rfiles' /= rfiles) =>
             (rpc' = "close" /\ rret' = <<-1>> /\ ~rx'.open)
       /\ (ssig >= 2 /\ spc \in {"body", "e_body"} /\ wire' /= wire) =>
             spc' /= "aborted"]_vars

\* C20: once two SIGINTs have reached the server process it eventually exits,
\* whether or not another client connects, also when they arrive while it waits
\* in accept.
ForcedExitEventually ==
    (rsig >= 2) ~> (rpc \in {"exited", "aborted"})

RECURSIVE SumSeq(_)
SumSeq(s) == IF s = <<>> THEN 0 ELSE Head(s) + SumSeq(Tail(s))

\* C21: send_all and recv_all return 0 only when the underlying calls have
\* moved exactly len bytes, never move more than len, return -1 as soon as an
\* underlying call returns 0 or an error, return 0 without any underlying call
\* when len is 0, and make at most len underlying calls, so that they end
\* whenever every underlying call returns.
AllOrError ==
    call.fn \in {"send_all", "recv_all"} =>
        /\ call.total <= call.len
        /\ Len(call.results) <= call.len
        /\ call.total = SumSeq(SelectSeq(call.results, LAMBDA n : n > 0))
        /\ call.ret = <<0>> =>
              /\ call.total = call.len
              /\ \A i \in 1..Len(call.results) : call.results[i] > 0
        /\ (\E i \in 1..Len(call.results) : call.results[i] <= 0) =>
              /\ call.ret = <<0 - 1>>
              /\ call.results[Len(call.results)] <= 0
              /\ \A i \in 1..(Len(call.results) - 1) : call.results[i] > 0
        /\ call.ret = <<0 - 1>> => call.results[Len(call.results)] <= 0
        /\ (call.len = 0 /\ call.ret /= <<>>) => call.ret = <<0>> /\ call.results = <<>>
AllOrErrorWitness ==
    /\ call.fn = "recv_all" /\ call.len = MaxLen /\ call.ret = <<0>>
    /\ Len(call.results) > 1

\* C22: validate_target_directory returns 0 with an empty output for the
\* empty string; -1 for a string that contains "..", or starts with '/', or is
\* longer than buffer_size - 2; and 0 with the string itself as output for
\* every other one.
ValidateContract ==
    (call.fn = "validate_target_directory" /\ call.ret /= <<>>) =>
        LET t == call.target_dir.s IN
        IF t = <<>> THEN call.ret = <<0>> /\ call.sanitized_dir = <<>>
        ELSE IF \/ \E i \in 1..(Len(t) - 1) : SubSeq(t, i, i + 1) = <<DOT, DOT>>
                \/ Head(t) = SLASH
                \/ Len(t) > call.buffer_size - 2
        THEN call.ret = <<0 - 1>>
        ELSE call.ret = <<0>> /\ call.sanitized_dir = t
ValidateContractWitness ==
    /\ call.fn = "validate_target_directory" /\ call.ret = <<0 - 1>>
    /\ call.target_dir.s = <<cA, SLASH, cA>> /\ call.buffer_size = 4

\* C27: for every value x, ntohll(htonll(x)) = x and the 8 bytes htonll(x)
\* leaves in memory are the bytes of x from the most significant one; the same
\* for htonl / ntohl on 4 bytes.
CodecBigEndian ==
    (call.fn \in {"htonll", "htonl"} /\ call.ret /= <<>>) =>
        call.back = call.x /\ call.mem = call.x

\* C28: adaptive_reset keeps current_chunk_size and clears the rest of the
\* state: no samples, sample index 0, every sample 0, the byte counters 0, and
\* transfer_start_time and last_adjustment_time set to the present time.
ResetKeepsChunkSize ==
    [][(au'.calls = au.calls + 1 /\ au'.fn = "adaptive_reset") =>
         /\ ad'.current_chunk_size = ad.current_chunk_size
         /\ ad'.sample_count = 0 /\ ad'.sample_index = 0
         /\ \A i \in 1..5 : ad'.speed_samples[i] = 0
         /\ ad'.bytes_transferred = 0 /\ ad'.bytes_sent_or_received = 0
         /\ ad'.total_bytes = 0
         /\ ad'.transfer_start_time = now /\ ad'.last_adjustment_time = now]_vars

\* a reset of a state that updates had brought to the largest chunk size
ResetKeepsChunkSizeWitness ==
    /\ mode = "adaptive" /\ au.fn = "adaptive_reset" /\ now >= 2
    /\ ad.current_chunk_size = 2097152 /\ ad.sample_count = 0
    /\ ad.transfer_start_time = now

\* C30: adaptive_update called with elapsed_time <= 0 leaves the whole
\* AdaptiveState as it was: no sample, no counter, no adjustment, even when
\* ADJUSTMENT_INTERVAL seconds have passed since the last adjustment.
NoTimeNoUpdate ==
    [][(au'.calls = au.calls + 1 /\ au'.fn = "adaptive_update" /\ au'.elapsed <= 0) =>
         ad' = ad]_vars

\* such a call made 2 seconds or more after the last adjustment, on a state
\* that holds samples of the slowest tier and still the initial chunk size
NoTimeNoUpdateWitness ==
    /\ mode = "adaptive" /\ au.fn = "adaptive_update" /\ au.elapsed <= 0
    /\ now - ad.last_adjustment_time >= 2
    /\ ad.sample_count > 0 /\ ad.speed_samples[1] = 512000
    /\ ad.current_chunk_size = 65536

\* ------------------------------------------------------------ sender: target handling
\* C24: a TARG or TDIR sender whose target subdir fails sanitization (it
\* contains "..", or begins with '/', or exceeds the buffer) aborts without
\* having written a byte to the stream.
BadTargetNothingSent ==
    (mode = "sender" /\ HasTargetOp /\ ~sx.target.null /\ BadTarget(sx.target.s)) =>
        /\ wire = <<>> /\ slog = <<>>
        /\ spc \in {"start", "failed"}

\* the TDIR sender of the existing directory r with target "t..", ended
BadTargetNothingSentWitness ==
    /\ mode = "sender" /\ sx.op = "dir_target" /\ sx.path = <<cR>>
    /\ sx.target = Str(<<cT, DOT, DOT>>)
    /\ spc = "failed" /\ closed /\ wire = <<>>

\* C26: send_file_with_target_protocol and send_directory_with_target_protocol
\* called with target_dir = NULL do not fail on it: they send the frame with
\* target_dir_len 0, for the receiver's current directory.
NullTargetMeansCwd ==
    (mode = "sender" /\ HasTargetOp /\ sx.target.null /\ spc = "failed") =>
        wire /= <<>>

\* ------------------------------------------------------------ sender: source files
\* C23: when opening or stat-ing a source file fails on the sender (the file
\* of a FILE or TARG send, or an entry file while a DIR or TDIR send streams
\* its entries), the sender aborts and no byte has been written to the stream.
OpenFailureNothingSent ==
    [][(/\ mode = "sender" /\ spc' = "failed"
        /\ \/ spc = "start" /\ IsFileOp /\ Norm(sx.path) \notin DOMAIN SrcFiles
           \/ spc = "e_hdr" /\ sx'.file = <<>>) =>
           wire' = <<>> /\ slog' = <<>>]_vars

\* ------------------------------------------------------------ the server loop: properties
\* C29: the server serves one connection at a time. At most one accepted
\* client socket is open at any moment; when the handler of a connection has
\* finished, with success, with an error or on an unknown magic, the server
\* closes that socket, once, and only then calls accept again.
OneClientAtATime ==
    /\ [](srv.open <= 1)
    /\ [][(rpc = "close" /\ rpc' /= "close") =>
             (rpc' = "idle" /\ srv'.open = 0 /\ srv'.closes = 1)]_vars
    /\ [][(rpc /= "accept" /\ rpc' = "accept" /\ srv.accepts > 0) =>
             (srv.open = 0 /\ srv.closes = 1)]_vars
    /\ [][srv'.accepts > srv.accepts => (srv.open = 0 /\ srv'.open = 1)]_vars

\* two clients were served, the first one's handler having returned an error,
\* and the server is in accept for a third
OneClientAtATimeWitness ==
    /\ mode = "peer" /\ srv.accepts = MaxConn /\ srv.open = 0 /\ srv.closes = 1
    /\ rpc = "accept" /\ ttype = <<0 - 1>> /\ fsops /= <<>>

\* ------------------------------------------------------------ resources
\* C25: whenever a send or receive operation is left, by a return or by the
\* end of the process, it has released what it acquired: the sender has no
\* directory iterator open once it has ended, the receiver's output file is
\* closed once its handler has returned or its process has ended, and no
\* accepted client socket is open once the server is back at the top of its
\* loop or its process has ended.
ReleasedOnEveryExit ==
    /\ (mode = "sender" /\ spc \in {"done", "failed", "aborted"}) => sx.stack = <<>>
    /\ rpc \in {"close", "idle", "accept", "exited", "aborted"} => ~rx.open
    /\ rpc \in {"idle", "exited", "aborted"} => srv.open = 0

\* ------------------------------------------------------------ adaptive chunk sizing: ties and the ring
\* C31: at an adjustment whose mean speed is exactly 1, 10, 50 or 100 MB/s
\* (MB = 2^20) the new chunk size is that of the tier below the boundary:
\* 8 KiB, 64 KiB, 256 KiB, 1 MiB.
TiesFallLow ==
    [][(IsUpdateStep /\ now - ad.last_adjustment_time >= 2) =>
         LET sum == SumTo(SamplesAfter, CountAfter) IN
         /\ sum = 1048576 * CountAfter => ad'.current_chunk_size = 8192
         /\ sum = 10485760 * CountAfter => ad'.current_chunk_size = 65536
         /\ sum = 52428800 * CountAfter => ad'.current_chunk_size = 262144
         /\ sum = 104857600 * CountAfter => ad'.current_chunk_size = 1048576]_vars

\* C39: the sample ring. After adaptive_init and any adaptive_update and
\* adaptive_reset calls, 0 <= sample_index < 5 and 0 <= sample_count <= 5; while
\* sample_count < 5, sample_index = sample_count and the slots from
\* sample_count on hold 0; sample_count decreases by adaptive_reset only; an
\* update writes the slot at sample_index alone and moves sample_index on by
\* one, so that with 5 samples it is the oldest that is overwritten; and an
\* adjustment averages the sample_count (>= 1) populated slots.
SampleRing ==
    /\ [](/\ 0 <= ad.sample_index /\ ad.sample_index < 5
          /\ 0 <= ad.sample_count /\ ad.sample_count <= 5
          /\ ad.sample_count < 5 =>
                /\ ad.sample_index = ad.sample_count
                /\ \A i \in (ad.sample_count + 1)..5 : ad.speed_samples[i] = 0)
    /\ [][ad'.sample_count < ad.sample_count =>
             (au'.fn = "adaptive_reset" /\ ad'.sample_count = 0)]_vars
    /\ [][IsUpdateStep =>
             /\ ad'.speed_samples = SamplesAfter
             /\ ad'.sample_index = (ad.sample_index + 1) % 5
             /\ ad'.sample_count = CountAfter /\ CountAfter >= 1
             /\ now - ad.last_adjustment_time >= 2 =>
                   ad'.current_chunk_size =
                       TierOf(SumTo(ad'.speed_samples, ad'.sample_count)
                                 \div ad'.sample_count)]_vars

\* the sixth update in a row has overwritten the first sample
SampleRingWitness ==
    /\ mode = "adaptive" /\ au.fn = "adaptive_update" /\ au.elapsed > 0
    /\ ad.sample_count = 5 /\ ad.sample_index = 1
    /\ ad.speed_samples[1] = 209715200 /\ ad.speed_samples[2] = 512000

ChunkerKeptAcrossEntries ==
    [][(/\ call.fn \in {"send_single_file_in_dir", "receive_single_file_in_dir"}
        /\ call.pc = "init" /\ call'.pc = "start" /\ call.ended /= <<>>) =>
           /\ ad'.current_chunk_size = call.ended[1].current_chunk_size
           /\ ad'.speed_samples = call.ended[1].speed_samples
           /\ ad'.sample_count = call.ended[1].sample_count]_vars

\* C34: for every directory path the DIR and TDIR senders accept, one that ends
\* with a '/' included, the base name written to the wire is not empty: the
\* header's base-name length is at least 1.
BaseNameNonEmpty ==
    (/\ mode = "sender" /\ ~IsFileOp
     /\ \E i \in 1..Len(slog) : slog[i].what = "header") =>
        /\ Len(sx.name) >= 1
        /\ \A i \in 1..Len(slog) : slog[i].what = "name" => Len(slog[i].bytes) >= 1

\* C36: for a source tree that stays as it is, the total_files of the DIR or
\* TDIR header is the number of entry headers the stream pass emits and its
\* total_size the sum of their file_size fields: never more entries than
\* announced while the walk runs, exactly as many once the sender is done, and
\* no entry header for anything that is not a regular file.
CountMatchesStream ==
    (/\ mode = "sender" /\ ~IsFileOp
     /\ \E i \in 1..Len(slog) : slog[i].what = "header") =>
        LET hdr == slog[CHOOSE i \in 1..Len(slog) : slog[i].what = "header"].bytes
            ents == {i \in 1..Len(slog) : slog[i].what = "entry_header"}
            sizes == [i \in 1..Len(slog) |->
                        IF i \in ents THEN Num(Field(HostLE, slog[i].bytes, 1)) ELSE 0]
            paths == {slog[i].bytes : i \in {j \in 1..Len(slog) : slog[j].what = "path"}}
            src == Norm(sx.path)
        IN /\ Cardinality(ents) <= Num(Field(HostLE, hdr, 1))
           /\ SumSeq(sizes) <= Num(Field(HostLE, hdr, 2))
           /\ \A q \in paths : src \o Norm(q) \in DOMAIN SrcFiles
           /\ spc = "done" => /\ Cardinality(ents) = Num(Field(HostLE, hdr, 1))
                              /\ SumSeq(sizes) = Num(Field(HostLE, hdr, 2))

CountMatchesStreamWitness ==
    /\ mode = "sender" /\ sx.op = "dir" /\ spc = "done"
    /\ Norm(sx.path) = << <<cR>> >>
    /\ Cardinality({i \in 1..Len(slog) : slog[i].what = "entry_header"}) = 2
    /\ sx.total_files = 2 /\ sx.total_size = MaxBody

\* C35: in a TDIR frame the receiver returns success only if total_files
\* entries, none of them a zero/zero header, were each received in full; when
\* the peer sends fewer entries and closes, or a zero/zero header comes among
\* the first total_files entries, the handler returns an error, never success.
TDirAllOrError ==
    (/\ mode = "peer" /\ handler = "recv_directory_with_target_protocol"
     /\ rret /= <<>>) =>
        LET n == frame.total_files
            early == \E i \in 1..Min(n, Len(frame.entries)) : IsZeroZero(frame.entries[i])
        IN /\ rret = <<0>> =>
                /\ Len(frame.entries) >= n
                /\ ~early
                /\ rpos >= TDirEnd(n)
                /\ Count(rlog, "path") = n
           /\ (early \/ Len(frame.entries) < n) => rret = <<0 - 1>>

\* two entries announced, a complete one and then a zero/zero header: an error
TDirAllOrErrorWitness ==
    /\ mode = "peer" /\ handler = "recv_directory_with_target_protocol"
    /\ frame.total_files = 2 /\ Len(frame.entries) = 2
    /\ frame.entries[1] = Entry(MaxBody, <<cA>>) /\ frame.entries[2] = Sentinel
    /\ Count(rlog, "end_marker") = 1
    /\ rret = <<0 - 1>> /\ rpc = "idle"

\* C38: for every 64-bit length a receiver reads from a header (filename_len,
\* base_path_len, target_dir_len), 2^64 - 1 included, the buffer allocated with
\* malloc(len + 1) holds more than len bytes: len + 1 does not wrap to 0.
BufferHoldsLength ==
    (mode = "calls" /\ call.fn = "malloc" /\ call.size /= <<>>) =>
        /\ Less64(call.length, call.size[1])
        /\ call.size[1] /= U64(0)

\* C33: between every two consecutive Byte Courier calls of a transfer the
\* engine polls the cancellation signal: a sender's send that is followed by
\* another one (of the header after the magic, of the name after the header, of
\* content after the name) is followed first by a poll, and a poll that finds
\* two SIGINTs ends the transfer there.
PollBetweenCalls ==
    [][(/\ mode = "sender" /\ slog' /= slog
        /\ spc' \notin {"done", "failed"}
        /\ signals_should_shutdown(ssig) = 2) => spc' = "aborted"]_vars
====
